---- MODULE Spec2Model ----
(***************************************************************************)
(* LocalRAG (PrivaRepo): the tree-sitter chunker, the ChromaDB-backed      *)
(* vector store and the indexing / query pipeline, as state machines.      *)
(*                                                                         *)
(* Text is modelled by TLA+ strings; lengths, slices and line splitting    *)
(* are computed on the characters.  Similarities and distances are in      *)
(* hundredths (distance 30 stands for 0.30).                               *)
(***************************************************************************)
EXTENDS Integers, Sequences, FiniteSets, TLC

VARIABLES
    config,      \* TreeSitterConfig and ChromaDBConfig fields in use
    parsers,     \* TreeSitterChunker.parsers: languages with a loaded parser
    disk,        \* the files under the code path: path -> text
    collection,  \* the ChromaDB collection: chunk id -> [document, metadata]
    runs,        \* chunk_file calls made so far: <<[path, code, result], ...>>
    pool,        \* the CodeChunk objects callers hold and may pass to the store
    exported,    \* the file export_chunks writes: [written, records]
    ret,         \* the last store / pipeline call: operation, arguments, outcome
    vector_store \* the CodeVectorStore object: [returned, client, collection]

vars == <<config, parsers, disk, collection, runs, pool, exported, ret, vector_store>>

----------------------------------------------------------------------------
(* Bounds *)

MaxWindow  == 2    \* largest max_chunk_size tried by the fallback runs
MaxMethods == 2    \* most methods in a generated class
MaxList    == 2    \* longest chunk list passed directly to add_chunks
HashSpace  == 32749 \* range of the modelled truncated digest

----------------------------------------------------------------------------
(* Python values and string primitives *)

None == "<None>"

\* an Optional value: <<>> is None, <<v>> is the value v
Absent == <<>>

Given(v) == <<v>>

NL == "\n"

Min(a, b) == IF a <= b THEN a ELSE b

Max(a, b) == IF a >= b THEN a ELSE b

Char(s, i) == SubSeq(s, i, i)

\* s[a:b] of Python, 0-based, end exclusive, clamped to the string
Slice(s, a, b) == SubSeq(s, a + 1, Min(b, Len(s)))

\* the positions of the line breaks of s
Breaks(s) == {i \in 1..Len(s) : Char(s, i) = NL}

\* the k-th line break of s; 0 before the first, Len(s) + 1 after the last
BreakAt(s, k) ==
    IF k = 0 THEN 0
    ELSE IF k > Cardinality(Breaks(s)) THEN Len(s) + 1
    ELSE CHOOSE p \in Breaks(s) : Cardinality({q \in Breaks(s) : q < p}) = k - 1

\* str.split('\n')
Split(s) ==
    [k \in 1..(Cardinality(Breaks(s)) + 1) |->
        SubSeq(s, BreakAt(s, k - 1) + 1, BreakAt(s, k) - 1)]

RECURSIVE Join(_)
\* '\n'.join(lines)
Join(lines) ==
    IF Len(lines) = 0 THEN ""
    ELSE IF Len(lines) = 1 THEN lines[1]
    ELSE lines[1] \o NL \o Join(Tail(lines))

CR == "\r"

RECURSIVE Translate(_, _)
\* universal newlines from position i on: "\r\n" and "\r" are read as "\n"
Translate(s, i) ==
    IF i > Len(s) THEN ""
    ELSE IF Char(s, i) = CR
    THEN NL \o Translate(s, IF i < Len(s) /\ Char(s, i + 1) = NL THEN i + 2 ELSE i + 1)
    ELSE Char(s, i) \o Translate(s, i + 1)

\* a read that hands out the characters of the file as they are
ReadTextUntranslated(raw) == raw

\* open(file_path, 'r', encoding='utf-8', errors='ignore').read() on a file
\* holding the characters raw: text mode with the default newline=None
ReadText(raw) ==
    IF \E i \in 1..Len(raw) : Char(raw, i) = CR THEN Translate(raw, 1) ELSE raw

Range(f) == {f[i] : i \in DOMAIN f}

\* [chunk.chunk_id for chunk in chunks]
Ids(chunks) == [i \in DOMAIN chunks |-> chunks[i].chunk_id]

\* dict merge {**a, **b}: the keys of b win
Merge(a, b) ==
    [k \in (DOMAIN a) \cup (DOMAIN b) |-> IF k \in DOMAIN b THEN b[k] ELSE a[k]]

EmptyDict == <<>>

----------------------------------------------------------------------------
(* CodeChunk and its identifier *)

CharTable ==
    "abcdefghijklmnopqrstuvwxyzABCDEFGHIJKLMNOPQRSTUVWXYZ0123456789 _:;(){}.,=/\n\"'<>"

CharCodes ==
    [c \in {Char(CharTable, i) : i \in 1..Len(CharTable)} |->
        CHOOSE i \in 1..Len(CharTable) : Char(CharTable, i) = c]

CharCode(c) == IF c \in DOMAIN CharCodes THEN CharCodes[c] ELSE 0

RECURSIVE PowMod(_, _)
PowMod(b, e) ==
    IF e = 0 THEN 1 % HashSpace
    ELSE IF e % 2 = 0 THEN (PowMod(b, e \div 2) * PowMod(b, e \div 2)) % HashSpace
    ELSE (b * PowMod(b, e - 1)) % HashSpace

RECURSIVE Digest(_, _, _)
\* the polynomial digest of s[lo..hi], computed by halves
Digest(s, lo, hi) ==
    IF lo > hi THEN 0
    ELSE IF lo = hi THEN CharCode(Char(s, lo)) % HashSpace
    ELSE LET mid == (lo + hi) \div 2
         IN  (Digest(s, lo, mid) * PowMod(31, hi - mid) + Digest(s, mid + 1, hi)) % HashSpace

\* hashlib.md5(text).hexdigest()[:12]: a deterministic digest of the whole
\* text into a bounded range (distinct texts may collide)
Md5Hex12(text) == ToString(Digest(text, 1, Len(text)))

\* the id drops the chunk type from the prefix
GenerateIdNoType(language, chunk_type, file_path, start_line, content) ==
    language \o "_" \o
        Md5Hex12(file_path \o ":" \o ToString(start_line) \o ":" \o content)

\* the id is salted with the number of chunk_file calls made so far
GenerateIdSalted(language, chunk_type, file_path, start_line, content) ==
    language \o "_" \o chunk_type \o "_" \o
        Md5Hex12(file_path \o ":" \o ToString(start_line + Len(runs)) \o ":" \o content)

\* CodeChunk._generate_id
GenerateId(language, chunk_type, file_path, start_line, content) ==
    language \o "_" \o chunk_type \o "_" \o
        Md5Hex12(file_path \o ":" \o ToString(start_line) \o ":" \o content)

\* the symbol name is hashed into the id as well
CodeChunkHashName(content, chunk_type, language, file_path, start_line, end_line, name, parent_context, metadata) ==
    [content |-> content, chunk_type |-> chunk_type, language |-> language,
     file_path |-> file_path, start_line |-> start_line, end_line |-> end_line,
     name |-> name, parent_context |-> parent_context,
     metadata |-> metadata,
     chunk_id |-> GenerateId(language, chunk_type, file_path, start_line,
                             content \o ":" \o name)]

\* CodeChunk(...) with chunk_id=None: __post_init__ fills in the id; a caller
\* that passes no metadata gets {} from __post_init__ (EmptyDict here)
CodeChunk(content, chunk_type, language, file_path, start_line, end_line, name, parent_context, metadata) ==
    [content |-> content, chunk_type |-> chunk_type, language |-> language,
     file_path |-> file_path, start_line |-> start_line, end_line |-> end_line,
     name |-> name, parent_context |-> parent_context,
     metadata |-> metadata,
     chunk_id |-> GenerateId(language, chunk_type, file_path, start_line, content)]

\* CodeChunk(..., chunk_id=given): the given id is kept
CodeChunkWithId(content, chunk_type, language, file_path, start_line, end_line, name, parent_context, metadata, chunk_id) ==
    [content |-> content, chunk_type |-> chunk_type, language |-> language,
     file_path |-> file_path, start_line |-> start_line, end_line |-> end_line,
     name |-> name, parent_context |-> parent_context,
     metadata |-> metadata,
     chunk_id |-> IF chunk_id = None
                  THEN GenerateId(language, chunk_type, file_path, start_line, content)
                  ELSE chunk_id]

\* TreeSitterChunker._is_valid_chunk
IsValidChunk(cfg, chunk) ==
    /\ cfg.min_chunk_size <= Len(chunk.content)
    /\ Len(chunk.content) <= cfg.max_chunk_size

----------------------------------------------------------------------------
(* Fallback text windowing *)

\* the window is flushed only once it has grown past max_chunk_size
FlushWhenOver(size, max_chunk_size) == size > max_chunk_size

\* the flush test of the loop: current_size >= max_chunk_size
FlushNow(size, max_chunk_size) == size >= max_chunk_size

RECURSIVE FallbackLoop(_, _, _, _, _, _, _, _)
\* the for loop of _fallback_chunking; i is the 0-based line index
FallbackLoop(cfg, lines, file_path, language, i, current_chunk, current_size, chunks) ==
    IF i >= Len(lines)
    THEN \* add remaining chunk
         IF Len(current_chunk) > 0
         THEN Append(chunks,
                  CodeChunk(Join(current_chunk), "text_block", language, file_path,
                            Len(lines) - Len(current_chunk), Len(lines) - 1,
                            None, None, EmptyDict))
         ELSE chunks
    ELSE LET cc == Append(current_chunk, lines[i + 1])
             sz == current_size + Len(lines[i + 1])
         IN  IF FlushNow(sz, cfg.max_chunk_size)
             THEN FallbackLoop(cfg, lines, file_path, language, i + 1, <<>>, 0,
                      Append(chunks,
                          CodeChunk(Join(cc), "text_block", language, file_path,
                                    i - Len(cc) + 1, i, None, None, EmptyDict)))
             ELSE FallbackLoop(cfg, lines, file_path, language, i + 1, cc, sz, chunks)

\* every fallback chunk is tagged "unknown" instead of the detected language
FallbackTaggedUnknown(cfg, content, file_path, language) ==
    FallbackLoop(cfg, Split(content), file_path, "unknown", 0, <<>>, 0, <<>>)

\* TreeSitterChunker._fallback_chunking on a file holding `content`, which
\* it reads itself
FallbackChunking(cfg, content, file_path, language) ==
    FallbackLoop(cfg, Split(ReadText(content)), file_path, language, 0, <<>>, 0, <<>>)

----------------------------------------------------------------------------
(* Syntax trees as tree-sitter returns them: a sequence of nodes, node 1   *)
(* the root; a node carries its type, start_point, end_point, children and *)
(* the ids of its `name` and `body` fields (0 when the field is absent)    *)

Node(type, sr, sc, er, ec, children, name, body) ==
    [type |-> type, sr |-> sr, sc |-> sc, er |-> er, ec |-> ec,
     children |-> children, name |-> name, body |-> body]

RECURSIVE Concat(_)
Concat(seqs) == IF Len(seqs) = 0 THEN <<>> ELSE Head(seqs) \o Concat(Tail(seqs))

\* a Python class Bar with n methods m1..mn
PyClassLines(n) ==
    <<"class Bar:">> \o
    (IF n = 0 THEN <<" pass">>
     ELSE Concat([i \in 1..n |-> <<" def m" \o ToString(i) \o "(self):", "  pass">>]))

PyMethodNodes(i, b) ==
    << Node("function_definition", 2 * i - 1, 1, 2 * i, 6, <<b + 1, b + 2, b + 3>>, b + 1, b + 3),
       Node("identifier", 2 * i - 1, 5, 2 * i - 1, 7, <<>>, 0, 0),
       Node("parameters", 2 * i - 1, 7, 2 * i - 1, 13, <<>>, 0, 0),
       Node("block", 2 * i, 2, 2 * i, 6, <<b + 4>>, 0, 0),
       Node("pass_statement", 2 * i, 2, 2 * i, 6, <<>>, 0, 0) >>

\* a tree whose methods are children of the class node itself
PyClassTreeFlat(n) ==
    LET last == IF n = 0 THEN 1 ELSE 2 * n
        endc == IF n = 0 THEN 5 ELSE 6
    IN  << Node("module", 0, 0, last, endc, <<2>>, 0, 0),
           Node("class_definition", 0, 0, last, endc,
                IF n = 0 THEN <<3, 4>> ELSE <<3>> \o [i \in 1..n |-> 5 * i], 3, 4),
           Node("identifier", 0, 6, 0, 9, <<>>, 0, 0),
           Node("block", 1, 1, last, endc, IF n = 0 THEN <<5>> ELSE <<>>, 0, 0) >>
        \o (IF n = 0 THEN << Node("pass_statement", 1, 1, 1, 5, <<>>, 0, 0) >>
            ELSE Concat([i \in 1..n |-> PyMethodNodes(i, 5 * i)]))

\* tree-sitter-python: the methods are children of the class's block
PyClassTree(n) ==
    LET last == IF n = 0 THEN 1 ELSE 2 * n
        endc == IF n = 0 THEN 5 ELSE 6
    IN  << Node("module", 0, 0, last, endc, <<2>>, 0, 0),
           Node("class_definition", 0, 0, last, endc, <<3, 4>>, 3, 4),
           Node("identifier", 0, 6, 0, 9, <<>>, 0, 0),
           Node("block", 1, 1, last, endc,
                IF n = 0 THEN <<5>> ELSE [i \in 1..n |-> 5 * i], 0, 0) >>
        \o (IF n = 0 THEN << Node("pass_statement", 1, 1, 1, 5, <<>>, 0, 0) >>
            ELSE Concat([i \in 1..n |-> PyMethodNodes(i, 5 * i)]))

\* a Java class Bar with n methods m1..mn
JavaClassLines(n) ==
    <<"class Bar {">> \o [i \in 1..n |-> " void m" \o ToString(i) \o "() {}"] \o <<"}">>

JavaMethodNodes(i, b) ==
    << Node("method_declaration", i, 1, i, 13, <<b + 1, b + 2, b + 3, b + 4>>, b + 2, b + 4),
       Node("void_type", i, 1, i, 5, <<>>, 0, 0),
       Node("identifier", i, 6, i, 8, <<>>, 0, 0),
       Node("formal_parameters", i, 8, i, 10, <<>>, 0, 0),
       Node("block", i, 11, i, 13, <<>>, 0, 0) >>

\* tree-sitter-java: the methods are children of the class_body
JavaClassTree(n) ==
    << Node("program", 0, 0, n + 1, 1, <<2>>, 0, 0),
       Node("class_declaration", 0, 0, n + 1, 1, <<3, 4>>, 3, 4),
       Node("identifier", 0, 6, 0, 9, <<>>, 0, 0),
       Node("class_body", 0, 10, n + 1, 1, [i \in 1..n |-> 5 * i], 0, 0) >>
    \o Concat([i \in 1..n |-> JavaMethodNodes(i, 5 * i)])

\* import os / def foo(): return os
PyFuncLines == <<"import os", "def foo():", "  return os">>

PyFuncTree ==
    << Node("module", 0, 0, 2, 11, <<2, 3>>, 0, 0),
       Node("import_statement", 0, 0, 0, 9, <<>>, 0, 0),
       Node("function_definition", 1, 0, 2, 11, <<4, 5, 6>>, 4, 6),
       Node("identifier", 1, 4, 1, 7, <<>>, 0, 0),
       Node("parameters", 1, 7, 1, 9, <<>>, 0, 0),
       Node("block", 2, 2, 2, 11, <<7>>, 0, 0),
       Node("return_statement", 2, 2, 2, 11, <<>>, 0, 0) >>

\* a function whose body starts with a docstring
PyDocLines == <<"def doc():", "  \"hi\"", "  return 1">>

PyDocTree ==
    << Node("module", 0, 0, 2, 10, <<2>>, 0, 0),
       Node("function_definition", 0, 0, 2, 10, <<3, 4, 5>>, 3, 5),
       Node("identifier", 0, 4, 0, 7, <<>>, 0, 0),
       Node("parameters", 0, 7, 0, 9, <<>>, 0, 0),
       Node("block", 1, 2, 2, 10, <<6, 8>>, 0, 0),
       Node("expression_statement", 1, 2, 1, 6, <<7>>, 0, 0),
       Node("string", 1, 2, 1, 6, <<>>, 0, 0),
       Node("return_statement", 2, 2, 2, 10, <<>>, 0, 0) >>

\* a Java class and its method on one physical line
JavaOneLines == <<"class A { void f() {} }">>

JavaOneTree ==
    << Node("program", 0, 0, 0, 23, <<2>>, 0, 0),
       Node("class_declaration", 0, 0, 0, 23, <<3, 4>>, 3, 4),
       Node("identifier", 0, 6, 0, 7, <<>>, 0, 0),
       Node("class_body", 0, 8, 0, 23, <<5>>, 0, 0),
       Node("method_declaration", 0, 10, 0, 21, <<6, 7, 8, 9>>, 7, 9),
       Node("void_type", 0, 10, 0, 14, <<>>, 0, 0),
       Node("identifier", 0, 15, 0, 16, <<>>, 0, 0),
       Node("formal_parameters", 0, 16, 0, 18, <<>>, 0, 0),
       Node("block", 0, 19, 0, 21, <<>>, 0, 0) >>

\* two JavaScript functions on one physical line, then a class
JsTwoLines == <<"function a(){} function b(){}", "class K {}">>

JsTwoTree ==
    << Node("program", 0, 0, 1, 10, <<2, 5, 8>>, 0, 0),
       Node("function_declaration", 0, 0, 0, 14, <<3, 4>>, 3, 4),
       Node("identifier", 0, 9, 0, 10, <<>>, 0, 0),
       Node("statement_block", 0, 12, 0, 14, <<>>, 0, 0),
       Node("function_declaration", 0, 15, 0, 29, <<6, 7>>, 6, 7),
       Node("identifier", 0, 24, 0, 25, <<>>, 0, 0),
       Node("statement_block", 0, 27, 0, 29, <<>>, 0, 0),
       Node("class_declaration", 1, 0, 1, 10, <<9, 10>>, 9, 10),
       Node("identifier", 1, 6, 1, 7, <<>>, 0, 0),
       Node("class_body", 1, 8, 1, 10, <<>>, 0, 0) >>

\* the parsed sources: [language, code, tree]
Sources ==
    { [language |-> "python", code |-> Join(PyClassLines(n)), tree |-> PyClassTree(n)]
        : n \in 0..MaxMethods }
    \cup
    { [language |-> "java", code |-> Join(JavaClassLines(n)), tree |-> JavaClassTree(n)]
        : n \in 0..MaxMethods }
    \cup
    { [language |-> "python", code |-> Join(PyFuncLines), tree |-> PyFuncTree],
      [language |-> "python", code |-> Join(PyDocLines), tree |-> PyDocTree],
      [language |-> "java", code |-> Join(JavaOneLines), tree |-> JavaOneTree],
      [language |-> "javascript", code |-> Join(JsTwoLines), tree |-> JsTwoTree] }

\* parser.parse(bytes(code, 'utf8')) of the parser loaded for `language`
Parse(language, code) ==
    (CHOOSE s \in Sources : s.language = language /\ s.code = code).tree

----------------------------------------------------------------------------
(* Node text and content *)

\* TreeSitterChunker._get_node_text; nid = 0 is the absent node (None)
GetNodeText(tree, nid, code_lines) ==
    IF nid = 0 THEN ""
    ELSE LET n == tree[nid]
         IN  IF n.sr = n.er
             THEN Slice(code_lines[n.sr + 1], n.sc, n.ec)
             ELSE Slice(code_lines[n.sr + 1], n.sc, Len(code_lines[n.sr + 1]))
                  \o Concat([k \in 1..(n.er - n.sr - 1) |-> NL \o code_lines[n.sr + 1 + k]])
                  \o NL \o Slice(code_lines[n.er + 1], 0, n.ec)

\* only the node's own columns are taken, not the whole physical lines
GetNodeContentExact(tree, nid, code_lines) == GetNodeText(tree, nid, code_lines)

\* TreeSitterChunker._get_node_content: the physical lines start..end
GetNodeContent(tree, nid, code_lines) ==
    Join(SubSeq(code_lines, tree[nid].sr + 1, Min(tree[nid].er + 1, Len(code_lines))))

IsQuote(c) == c = "\"" \/ c = "'"

RECURSIVE StripQuotes(_)
\* str.strip('"\'')
StripQuotes(s) ==
    IF Len(s) = 0 THEN s
    ELSE IF IsQuote(Char(s, 1)) THEN StripQuotes(SubSeq(s, 2, Len(s)))
    ELSE IF IsQuote(Char(s, Len(s))) THEN StripQuotes(SubSeq(s, 1, Len(s) - 1))
    ELSE s

\* a test that finds no string in any other
ContainsNever(s, sub) == FALSE

\* `sub in s` of Python
Contains(s, sub) ==
    \E i \in 1..(Len(s) + 1) :
        i + Len(sub) - 1 <= Len(s) /\ SubSeq(s, i, i + Len(sub) - 1) = sub

\* TreeSitterChunker._extract_docstring (None when there is no docstring)
ExtractDocstring(tree, nid, code_lines) ==
    LET body == tree[nid].body
    IN  IF body # 0 /\ Len(tree[body].children) > 0
        THEN LET first_child == tree[tree[body].children[1]]
             IN  IF first_child.type = "expression_statement"
                    /\ tree[first_child.children[1]].type = "string"
                 THEN StripQuotes(GetNodeText(tree, first_child.children[1], code_lines))
                 ELSE None
        ELSE None

\* truthiness of an Optional[str]
Truthy(v) == v # None /\ v # ""

----------------------------------------------------------------------------
(* Extraction: the accumulator is [chunks, raised]; once an exception is   *)
(* raised nothing more is appended                                         *)

NoChunks == [chunks |-> <<>>, raised |-> FALSE]

Emit(acc, chunk) == [acc EXCEPT !.chunks = Append(@, chunk)]

\* TreeSitterChunker._extract_function_chunk
ExtractFunctionChunk(cfg, tree, code_lines, file_path, nid, parent_class, acc) ==
    IF acc.raised THEN acc
    ELSE IF ~cfg.include_docstrings
    THEN \* `docstring` is read at line 189 without having been assigned
         [acc EXCEPT !.raised = TRUE]
    ELSE LET func_name == GetNodeText(tree, tree[nid].name, code_lines)
             body      == GetNodeContent(tree, nid, code_lines)
             docstring == ExtractDocstring(tree, nid, code_lines)
             func_content ==
                 IF Truthy(docstring) /\ ~Contains(body, docstring)
                 THEN "\"\"\"" \o docstring \o "\"\"\"" \o NL \o body
                 ELSE body
         IN  Emit(acc,
                 CodeChunk(func_content,
                           IF Truthy(parent_class) THEN "method" ELSE "function",
                           "python", file_path, tree[nid].sr, tree[nid].er,
                           func_name, parent_class,
                           [has_docstring |-> Truthy(docstring)]))

RECURSIVE SweepMethods(_, _, _, _, _, _, _, _)
\* lines 151-153: the direct children of a class that are function definitions
SweepMethods(cfg, tree, code_lines, file_path, kids, k, class_name, acc) ==
    IF k > Len(kids) THEN acc
    ELSE SweepMethods(cfg, tree, code_lines, file_path, kids, k + 1, class_name,
             IF tree[kids[k]].type = "function_definition"
             THEN ExtractFunctionChunk(cfg, tree, code_lines, file_path, kids[k],
                                       class_name, acc)
             ELSE acc)

RECURSIVE TraversePython(_, _, _, _, _, _, _)
RECURSIVE TraversePythonKids(_, _, _, _, _, _, _, _)
\* _extract_python_chunks.traverse
TraversePython(cfg, tree, code_lines, file_path, nid, parent_class, acc) ==
    IF acc.raised THEN acc
    ELSE LET n == tree[nid]
             here ==
               IF n.type = "class_definition" /\ cfg.chunk_by_classes
               THEN LET class_name == GetNodeText(tree, n.name, code_lines)
                        withClass ==
                            Emit(acc, CodeChunk(GetNodeContent(tree, nid, code_lines),
                                                "class", "python", file_path,
                                                n.sr, n.er, class_name, None, EmptyDict))
                    IN  IF cfg.chunk_by_methods
                        THEN SweepMethods(cfg, tree, code_lines, file_path,
                                          n.children, 1, class_name, withClass)
                        ELSE withClass
               ELSE IF n.type = "function_definition" /\ cfg.chunk_by_functions
               THEN ExtractFunctionChunk(cfg, tree, code_lines, file_path, nid,
                                         parent_class, acc)
               ELSE acc
         IN  TraversePythonKids(cfg, tree, code_lines, file_path, n.children, 1,
                                parent_class, here)

TraversePythonKids(cfg, tree, code_lines, file_path, kids, k, parent_class, acc) ==
    IF k > Len(kids) \/ acc.raised THEN acc
    ELSE TraversePythonKids(cfg, tree, code_lines, file_path, kids, k + 1, parent_class,
             TraversePython(cfg, tree, code_lines, file_path, kids[k], parent_class, acc))

\* TreeSitterChunker._extract_python_chunks
ExtractPythonChunks(cfg, tree, code_lines, file_path) ==
    TraversePython(cfg, tree, code_lines, file_path, 1, None, NoChunks)

RECURSIVE TraverseJavascript(_, _, _, _, _, _, _)
RECURSIVE TraverseJavascriptKids(_, _, _, _, _, _, _, _)
\* _extract_javascript_chunks.traverse
TraverseJavascript(cfg, tree, code_lines, file_path, language, nid, acc) ==
    LET n == tree[nid]
        here ==
          IF n.type \in {"function_declaration", "function"} /\ cfg.chunk_by_functions
          THEN LET t == GetNodeText(tree, n.name, code_lines)
               IN  Emit(acc, CodeChunk(GetNodeContent(tree, nid, code_lines),
                                       "function", language, file_path, n.sr, n.er,
                                       IF t = "" THEN "anonymous" ELSE t, None, EmptyDict))
          ELSE IF n.type = "class_declaration" /\ cfg.chunk_by_classes
          THEN Emit(acc, CodeChunk(GetNodeContent(tree, nid, code_lines),
                                   "class", language, file_path, n.sr, n.er,
                                   GetNodeText(tree, n.name, code_lines), None, EmptyDict))
          ELSE acc
    IN  TraverseJavascriptKids(cfg, tree, code_lines, file_path, language,
                               n.children, 1, here)

TraverseJavascriptKids(cfg, tree, code_lines, file_path, language, kids, k, acc) ==
    IF k > Len(kids) THEN acc
    ELSE TraverseJavascriptKids(cfg, tree, code_lines, file_path, language, kids, k + 1,
             TraverseJavascript(cfg, tree, code_lines, file_path, language, kids[k], acc))

\* TreeSitterChunker._extract_javascript_chunks
ExtractJavascriptChunks(cfg, tree, code_lines, file_path, language) ==
    TraverseJavascript(cfg, tree, code_lines, file_path, language, 1, NoChunks)

RECURSIVE TraverseJava(_, _, _, _, _, _, _)
RECURSIVE TraverseJavaKids(_, _, _, _, _, _, _, _)
\* _extract_java_chunks.traverse; parent_class is passed down unchanged
TraverseJava(cfg, tree, code_lines, file_path, nid, parent_class, acc) ==
    LET n == tree[nid]
        here ==
          IF n.type = "class_declaration" /\ cfg.chunk_by_classes
          THEN Emit(acc, CodeChunk(GetNodeContent(tree, nid, code_lines),
                                   "class", "java", file_path, n.sr, n.er,
                                   GetNodeText(tree, n.name, code_lines), None, EmptyDict))
          ELSE IF n.type = "method_declaration" /\ cfg.chunk_by_methods
          THEN Emit(acc, CodeChunk(GetNodeContent(tree, nid, code_lines),
                                   "method", "java", file_path, n.sr, n.er,
                                   GetNodeText(tree, n.name, code_lines),
                                   parent_class, EmptyDict))
          ELSE acc
    IN  TraverseJavaKids(cfg, tree, code_lines, file_path, n.children, 1,
                         parent_class, here)

TraverseJavaKids(cfg, tree, code_lines, file_path, kids, k, parent_class, acc) ==
    IF k > Len(kids) THEN acc
    ELSE TraverseJavaKids(cfg, tree, code_lines, file_path, kids, k + 1, parent_class,
             TraverseJava(cfg, tree, code_lines, file_path, kids[k], parent_class, acc))

\* TreeSitterChunker._extract_java_chunks
ExtractJavaChunks(cfg, tree, code_lines, file_path) ==
    TraverseJava(cfg, tree, code_lines, file_path, 1, None, NoChunks)

ImportTypes(language) ==
    CASE language = "python"     -> {"import_statement", "import_from_statement"}
      [] language = "javascript" -> {"import_statement"}
      [] language = "java"       -> {"import_declaration"}
      [] OTHER                   -> {}

RECURSIVE ImportsFrom(_, _, _, _, _, _, _)
ImportsFrom(tree, code_lines, file_path, language, kids, k, chunks) ==
    IF k > Len(kids) THEN chunks
    ELSE ImportsFrom(tree, code_lines, file_path, language, kids, k + 1,
             IF tree[kids[k]].type \in ImportTypes(language)
             THEN Append(chunks,
                     CodeChunk(GetNodeContent(tree, kids[k], code_lines), "import",
                               language, file_path, tree[kids[k]].sr, tree[kids[k]].er,
                               None, None, EmptyDict))
             ELSE chunks)

\* TreeSitterChunker._extract_imports: the root's direct children only
ExtractImports(tree, code_lines, file_path, language) ==
    ImportsFrom(tree, code_lines, file_path, language, tree[1].children, 1, <<>>)

----------------------------------------------------------------------------
(* chunk_file *)

RECURSIVE LastDot(_, _)
LastDot(p, i) == IF i = 0 THEN 0 ELSE IF Char(p, i) = "." THEN i ELSE LastDot(p, i - 1)

\* Path.suffix
Suffix(p) == IF LastDot(p, Len(p)) <= 1 THEN "" ELSE SubSeq(p, LastDot(p, Len(p)), Len(p))

\* TreeSitterChunker._detect_language
DetectLanguage(file_path) ==
    LET x == Suffix(file_path)
    IN  CASE x = ".py" -> "python"
          [] x \in {".js", ".jsx"} -> "javascript"
          [] x \in {".ts", ".tsx"} -> "typescript"
          [] x = ".java" -> "java"
          [] x \in {".cpp", ".cc", ".hpp", ".h"} -> "cpp"
          [] OTHER -> "unknown"

\* the languages _initialize_parsers loads when the imports succeed
LoadedParsers == {"python", "javascript", "java"}

\* the size filter is skipped
KeepAll(cfg, chunks) == chunks

\* line 125: chunks = [c for c in chunks if self._is_valid_chunk(c)]
FilterValid(cfg, chunks) == SelectSeq(chunks, LAMBDA c : IsValidChunk(cfg, c))

\* TreeSitterChunker.chunk_file(file_path) on a file holding `code`:
\* [raised, chunks]
ChunkFile(cfg, prs, file_path, code) ==
    LET language == DetectLanguage(file_path)
    IN  IF language \notin prs
        THEN [raised |-> FALSE,
              chunks |-> FallbackChunking(cfg, code, file_path, language)]
        ELSE LET text       == ReadText(code)
                 tree       == Parse(language, text)
                 code_lines == Split(text)
                 imports    == IF cfg.include_imports
                               THEN ExtractImports(tree, code_lines, file_path, language)
                               ELSE <<>>
                 extracted  ==
                     CASE language = "python" ->
                            ExtractPythonChunks(cfg, tree, code_lines, file_path)
                       [] language \in {"javascript", "typescript"} ->
                            ExtractJavascriptChunks(cfg, tree, code_lines, file_path, language)
                       [] language = "java" ->
                            ExtractJavaChunks(cfg, tree, code_lines, file_path)
                       [] OTHER -> NoChunks
             IN  IF extracted.raised
                 THEN [raised |-> TRUE, chunks |-> <<>>]
                 ELSE [raised |-> FALSE,
                       chunks |-> FilterValid(cfg, imports \o extracted.chunks)]

----------------------------------------------------------------------------
(* The files *)

ClassPath(n, ext) == "c" \o ToString(n) \o ext

\* every file the model knows: path -> text
AllFiles ==
    LET named ==
          [p \in {"a.py", "d.py", "One.java", "two.js", "x.ts"} |->
              CASE p = "a.py"     -> Join(PyFuncLines)
                [] p = "d.py"     -> Join(PyDocLines)
                [] p = "One.java" -> Join(JavaOneLines)
                [] p = "two.js"   -> Join(JsTwoLines)
                [] p = "x.ts"     -> "let x = 1;\nlet y: number = 2;"]
        classes ==
          [p \in {ClassPath(n, ".py") : n \in 0..MaxMethods}
                 \cup {ClassPath(n, ".java") : n \in 0..MaxMethods} |->
              LET n == CHOOSE k \in 0..MaxMethods :
                           p \in {ClassPath(k, ".py"), ClassPath(k, ".java")}
              IN  IF Suffix(p) = ".py" THEN Join(PyClassLines(n))
                  ELSE Join(JavaClassLines(n))]
    IN  [p \in (DOMAIN named) \cup (DOMAIN classes) |->
            IF p \in DOMAIN named THEN named[p] ELSE classes[p]]

Paths == DOMAIN AllFiles

----------------------------------------------------------------------------
(* Configuration *)

\* min_chunk_size / max_chunk_size: the defaults of config.py and two
\* narrower settings
SizeSettings == { <<50, 2000>>, <<1, 2000>>, <<12, 30>> }

DefaultTopK == 8

DefaultThreshold == 10

ConfigOf(fn, cl, me, ds, im, sizes) ==
    [chunk_by_functions |-> fn, chunk_by_classes |-> cl, chunk_by_methods |-> me,
     include_docstrings |-> ds, include_imports |-> im,
     min_chunk_size |-> sizes[1], max_chunk_size |-> sizes[2],
     top_k |-> DefaultTopK, similarity_threshold |-> DefaultThreshold]

\* TreeSitterConfig as the settings can make it
ChunkerConfigs ==
    { ConfigOf(fn, cl, me, ds, im, sz) :
        fn \in BOOLEAN, cl \in BOOLEAN, me \in BOOLEAN, ds \in BOOLEAN,
        im \in BOOLEAN, sz \in SizeSettings }

NoRet == [op |-> "none", chunks |-> <<>>, raised |-> FALSE, value |-> 0]

\* no export file has been written
NoFile == [written |-> FALSE, records |-> <<>>]

\* the attributes of a CodeVectorStore whose constructor returned
Constructed == [returned |-> TRUE, client |-> TRUE, collection |-> TRUE]

\* no CodeVectorStore object yet
Unconstructed == [returned |-> FALSE, client |-> FALSE, collection |-> FALSE]

----------------------------------------------------------------------------
(* The chunker on its own: chunk_file called on files of the corpus *)

InitChunker ==
    /\ config \in ChunkerConfigs
    /\ parsers \in {LoadedParsers, {}}
    /\ disk = AllFiles
    /\ collection = EmptyDict
    /\ runs = <<>>
    /\ pool = {}
    /\ exported = NoFile
    /\ ret = NoRet
    /\ vector_store = Constructed

\* chunker.chunk_file(path); the history keeps a pair of calls, which is
\* what the properties of repeated calls compare
ChunkFileCall(path) ==
    /\ Len(runs) < 2
    /\ runs' = Append(runs, [path |-> path, code |-> disk[path],
                             result |-> ChunkFile(config, parsers, path, disk[path])])
    /\ UNCHANGED <<config, parsers, disk, collection, pool, exported, ret, vector_store>>

NextChunker == \E path \in DOMAIN disk : ChunkFileCall(path)

SpecChunker == InitChunker /\ [][NextChunker]_vars

----------------------------------------------------------------------------
(* The vector store *)

\* the metadata dict add_chunks builds for a chunk (lines 85-94)
MetadataOf(chunk) ==
    Merge([chunk_type |-> chunk.chunk_type, language |-> chunk.language,
           file_path |-> chunk.file_path, start_line |-> chunk.start_line,
           end_line |-> chunk.end_line,
           name |-> IF Truthy(chunk.name) THEN chunk.name ELSE "",
           parent_context |-> IF Truthy(chunk.parent_context)
                              THEN chunk.parent_context ELSE ""],
          chunk.metadata)

EntryOf(chunk) == [document |-> chunk.content, metadata |-> MetadataOf(chunk)]

HasDuplicates(seq) == \E i \in DOMAIN seq, j \in DOMAIN seq : i < j /\ seq[i] = seq[j]

\* the last record of the batch that carries the id
LastWith(batch, id) ==
    batch[CHOOSE i \in DOMAIN batch :
              batch[i].chunk_id = id /\ \A j \in DOMAIN batch : batch[j].chunk_id = id => j <= i]

\* an upsert: ids already present are overwritten
CollectionUpsert(coll, batch) ==
    [raised |-> FALSE,
     coll   |-> [id \in (DOMAIN coll) \cup {batch[i].chunk_id : i \in DOMAIN batch} |->
                    IF \E i \in DOMAIN batch : batch[i].chunk_id = id
                    THEN EntryOf(LastWith(batch, id))
                    ELSE coll[id]]]

\* an add that replaces what the collection holds of the files of the batch
CollectionAddEvicting(coll, batch) ==
    IF HasDuplicates(Ids(batch))
    THEN [raised |-> TRUE, coll |-> coll]
    ELSE LET kept == {id \in DOMAIN coll :
                         \A i \in DOMAIN batch :
                             batch[i].file_path # coll[id].metadata.file_path}
         IN  [raised |-> FALSE,
              coll   |-> [id \in kept \cup {batch[i].chunk_id : i \in DOMAIN batch} |->
                             IF id \in kept THEN coll[id]
                             ELSE EntryOf(LastWith(batch, id))]]

\* collection.add(ids, documents, metadatas) of a PersistentClient
\* collection (lines 99-103): a batch that repeats an id is rejected with
\* DuplicateIDError before anything is written; a record whose id is already
\* in the collection is skipped, the stored record stays as it is
CollectionAdd(coll, batch) ==
    IF HasDuplicates(Ids(batch))
    THEN [raised |-> TRUE, coll |-> coll]
    ELSE [raised |-> FALSE,
          coll   |-> [id \in (DOMAIN coll) \cup {batch[i].chunk_id : i \in DOMAIN batch} |->
                         IF id \in DOMAIN coll THEN coll[id]
                         ELSE EntryOf(LastWith(batch, id))]]

\* a delete that also takes every entry of the files the ids belong to
CollectionDeleteCascade(coll, ids) ==
    [id \in {i \in DOMAIN coll :
                \A j \in ids \cap DOMAIN coll :
                    coll[j].metadata.file_path # coll[i].metadata.file_path} |-> coll[id]]

\* collection.delete(ids=...)
CollectionDelete(coll, ids) == [id \in (DOMAIN coll) \ ids |-> coll[id]]

RECURSIVE AddBatches(_, _, _, _, _)
\* the batch loop of add_chunks; i is the 0-based start of the next batch
AddBatches(coll, chunks, batch_size, i, total_added) ==
    IF i >= Len(chunks)
    THEN [raised |-> FALSE, value |-> total_added, coll |-> coll]
    ELSE LET batch == SubSeq(chunks, i + 1, Min(i + batch_size, Len(chunks)))
             r     == CollectionAdd(coll, batch)
         IN  IF r.raised
             THEN [raised |-> TRUE, value |-> None, coll |-> coll]
             ELSE AddBatches(r.coll, chunks, batch_size, i + batch_size,
                             total_added + Len(batch))

\* the default batch_size of add_chunks
DefaultBatchSize == 100

\* an add_chunks that puts the collection back when a batch fails
AddChunksAtomic(coll, chunks, batch_size) ==
    IF Len(chunks) = 0
    THEN [raised |-> FALSE, value |-> 0, coll |-> coll]
    ELSE LET r == AddBatches(coll, chunks, batch_size, 0, 0)
         IN  IF r.raised THEN [r EXCEPT !.coll = coll] ELSE r

\* CodeVectorStore.add_chunks(chunks, batch_size): [raised, value, coll]
AddChunks(coll, chunks, batch_size) ==
    IF Len(chunks) = 0
    THEN [raised |-> FALSE, value |-> 0, coll |-> coll]
    ELSE AddBatches(coll, chunks, batch_size, 0, 0)

\* an update_chunk that adds without deleting the old version
UpdateChunkAddOnly(coll, chunk) == AddChunks(coll, <<chunk>>, DefaultBatchSize)

\* CodeVectorStore.update_chunk(chunk): delete the id, then add_chunks([chunk])
UpdateChunk(coll, chunk) ==
    AddChunks(CollectionDelete(coll, {chunk.chunk_id}), <<chunk>>, DefaultBatchSize)

\* the records export_chunks writes, in the order collection.get returns them
ExportRecords(coll, order) ==
    [i \in DOMAIN order |->
        [id |-> order[i], content |-> coll[order[i]].document,
         metadata |-> coll[order[i]].metadata]]

\* the CodeChunk import_chunks builds from one record (lines 307-318): the
\* stored id is kept and no metadata argument is passed
ChunkOfRecord(rec) ==
    CodeChunkWithId(rec.content, rec.metadata.chunk_type, rec.metadata.language,
                    rec.metadata.file_path, rec.metadata.start_line,
                    rec.metadata.end_line, rec.metadata.name,
                    rec.metadata.parent_context, EmptyDict, rec.id)

\* CodeVectorStore.import_chunks on a file holding `records`
ImportChunks(coll, records) ==
    AddChunks(coll, [i \in DOMAIN records |-> ChunkOfRecord(records[i])], DefaultBatchSize)

\* CodeVectorStore.delete_by_file(file_path): [value, coll]
DeleteByFile(coll, file_path) ==
    LET ids == {id \in DOMAIN coll : coll[id].metadata.file_path = file_path}
    IN  IF ids # {}
        THEN [value |-> Cardinality(ids), coll |-> CollectionDelete(coll, ids)]
        ELSE [value |-> 0, coll |-> coll]

\* CodeVectorStore.get_chunk_by_id(chunk_id): the dict, or None
GetChunkById(coll, chunk_id) ==
    IF chunk_id \in DOMAIN coll
    THEN Given([chunk_id |-> chunk_id, content |-> coll[chunk_id].document,
                metadata |-> coll[chunk_id].metadata])
    ELSE Absent

\* collection.get(limit=100) returns at most this many records
SampleLimit == 100

\* how many sampled records carry value v under the metadata key
CountBy(coll, sample, key, v) == Cardinality({id \in sample : coll[id].metadata[key] = v})

\* a get_statistics that counts over the whole collection
GetStatisticsWholeStore(coll, sample) ==
    LET histogram(key) ==
            IF sample = {} THEN Absent
            ELSE Given([v \in {coll[id].metadata[key] : id \in DOMAIN coll} |->
                           CountBy(coll, DOMAIN coll, key, v)])
    IN  [total_chunks |-> Cardinality(DOMAIN coll),
         chunk_types  |-> histogram("chunk_type"),
         languages    |-> histogram("language")]

\* CodeVectorStore.get_statistics(); `sample` is the set of ids
\* collection.get(limit=100) returned; the two histograms are only present
\* when the sample is not empty
GetStatistics(coll, sample) ==
    LET histogram(key) ==
            IF sample = {} THEN Absent
            ELSE Given([v \in {coll[id].metadata[key] : id \in sample} |->
                           CountBy(coll, sample, key, v)])
    IN  [total_chunks |-> Cardinality(DOMAIN coll),
         chunk_types  |-> histogram("chunk_type"),
         languages    |-> histogram("language")]

\* the sets of k ids of S
RECURSIVE LeftOut(_, _)
LeftOut(S, k) ==
    IF k = 0 THEN {{}}
    ELSE {D \cup {x} : x \in S, D \in LeftOut(S, k - 1)} \ LeftOut(S, k - 1)

\* the samples collection.get(limit=100) can return
Samples(coll) ==
    IF Cardinality(DOMAIN coll) <= SampleLimit THEN {DOMAIN coll}
    ELSE {(DOMAIN coll) \ D : D \in LeftOut(DOMAIN coll, Cardinality(DOMAIN coll) - SampleLimit)}

----------------------------------------------------------------------------
(* Construction and reset of the store *)

\* an _initialize that reports nothing when the collection cannot be had
InitializeQuiet(coll, exists, client_ok, get_ok, create_ok) ==
    IF ~client_ok
    THEN [raised |-> FALSE, client |-> FALSE, collection |-> FALSE, coll |-> coll]
    ELSE IF exists /\ get_ok
    THEN [raised |-> FALSE, client |-> TRUE, collection |-> TRUE, coll |-> coll]
    ELSE IF ~exists /\ create_ok
    THEN [raised |-> FALSE, client |-> TRUE, collection |-> TRUE, coll |-> EmptyDict]
    ELSE [raised |-> FALSE, client |-> TRUE, collection |-> FALSE, coll |-> coll]

\* CodeVectorStore._initialize (lines 30-59) on attributes that are None.
\* exists: the persist directory holds a collection of the configured name,
\* with the entries coll; client_ok, get_ok, create_ok: whether
\* PersistentClient(...), get_collection and create_collection succeed.  The
\* client is created outside any try; whatever get_collection raises is
\* caught and answered by create_collection, which raises on a name that
\* exists and whose exception is not caught.
Initialize(coll, exists, client_ok, get_ok, create_ok) ==
    IF ~client_ok
    THEN [raised |-> TRUE, client |-> FALSE, collection |-> FALSE, coll |-> coll]
    ELSE IF exists /\ get_ok
    THEN [raised |-> FALSE, client |-> TRUE, collection |-> TRUE, coll |-> coll]
    ELSE IF ~exists /\ create_ok
    THEN [raised |-> FALSE, client |-> TRUE, collection |-> TRUE, coll |-> EmptyDict]
    ELSE [raised |-> TRUE, client |-> TRUE, collection |-> FALSE, coll |-> coll]

\* a reset that finds the collection again
ResetCollectionReloads(coll) == Initialize(coll, TRUE, TRUE, TRUE, TRUE).coll

\* CodeVectorStore.reset_collection() on a store that answers:
\* client.delete_collection(name), then _initialize(), which finds no
\* collection of the name and creates one
ResetCollection(coll) == Initialize(EmptyDict, FALSE, TRUE, TRUE, TRUE).coll

----------------------------------------------------------------------------
(* index_codebase *)

\* the default file_extensions, in the order they are globbed
DefaultExtensions == <<".py", ".js", ".ts", ".java", ".cpp", ".cc", ".hpp">>

ExtRank(path) ==
    IF \E k \in DOMAIN DefaultExtensions : DefaultExtensions[k] = Suffix(path)
    THEN CHOOSE k \in DOMAIN DefaultExtensions : DefaultExtensions[k] = Suffix(path)
    ELSE 0

\* the orders in which lines 82-90 can list the files: extension by
\* extension, the files of one extension in the directory's order
FileOrders(files) ==
    LET found == {p \in DOMAIN files : ExtRank(p) > 0}
        n     == Cardinality(found)
    IN  {o \in [1..n -> found] :
            /\ \A i \in 1..n, j \in 1..n : i # j => o[i] # o[j]
            /\ \A i \in 1..n, j \in 1..n : i < j => ExtRank(o[i]) <= ExtRank(o[j])}

NoStats == [files_processed |-> 0, chunks_created |-> 0, errors |-> 0]

RECURSIVE IndexLoopAbort(_, _, _, _, _, _, _)
\* the loop ends at the first file on which chunk_file raises
IndexLoopAbort(cfg, prs, files, order, k, all_chunks, stats) ==
    IF k > Len(order) THEN [all_chunks |-> all_chunks, stats |-> stats]
    ELSE LET r == ChunkFile(cfg, prs, order[k], files[order[k]])
         IN  IF r.raised
             THEN [all_chunks |-> all_chunks, stats |-> [stats EXCEPT !.errors = @ + 1]]
             ELSE IndexLoopAbort(cfg, prs, files, order, k + 1, all_chunks \o r.chunks,
                                 [stats EXCEPT !.files_processed = @ + 1,
                                               !.chunks_created = @ + Len(r.chunks)])

RECURSIVE IndexLoopCountsFirst(_, _, _, _, _, _, _)
\* the file is counted as processed before chunk_file is called on it
IndexLoopCountsFirst(cfg, prs, files, order, k, all_chunks, stats) ==
    IF k > Len(order) THEN [all_chunks |-> all_chunks, stats |-> stats]
    ELSE LET r == ChunkFile(cfg, prs, order[k], files[order[k]])
         IN  IF r.raised
             THEN IndexLoopCountsFirst(cfg, prs, files, order, k + 1, all_chunks,
                                       [stats EXCEPT !.files_processed = @ + 1,
                                                     !.errors = @ + 1])
             ELSE IndexLoopCountsFirst(cfg, prs, files, order, k + 1,
                                       all_chunks \o r.chunks,
                                       [stats EXCEPT !.files_processed = @ + 1,
                                                     !.chunks_created = @ + Len(r.chunks)])

RECURSIVE IndexLoop(_, _, _, _, _, _, _)
\* the per-file loop (lines 110-123): [all_chunks, stats]
IndexLoop(cfg, prs, files, order, k, all_chunks, stats) ==
    IF k > Len(order) THEN [all_chunks |-> all_chunks, stats |-> stats]
    ELSE LET r == ChunkFile(cfg, prs, order[k], files[order[k]])
         IN  IF r.raised
             THEN IndexLoop(cfg, prs, files, order, k + 1, all_chunks,
                            [stats EXCEPT !.errors = @ + 1])
             ELSE IndexLoop(cfg, prs, files, order, k + 1, all_chunks \o r.chunks,
                            [stats EXCEPT !.files_processed = @ + 1,
                                          !.chunks_created = @ + Len(r.chunks)])

\* PrivaRepoRAG.index_codebase: [raised, stats, all_chunks, coll]
IndexCodebase(cfg, prs, files, order, coll) ==
    LET loop == IndexLoop(cfg, prs, files, order, 1, <<>>, NoStats)
        add  == AddChunks(coll, loop.all_chunks, DefaultBatchSize)
    IN  [raised |-> add.raised, stats |-> loop.stats,
         all_chunks |-> loop.all_chunks, coll |-> add.coll]

----------------------------------------------------------------------------
(* Properties of the chunker *)

Count(chunks, type) == Cardinality({i \in DOMAIN chunks : chunks[i].chunk_type = type})

\* every chunk some recorded chunk_file call returned
RunChunks == UNION {Range(runs[i].result.chunks) : i \in DOMAIN runs}

IsClassFile(path) ==
    \E n \in 0..MaxMethods : path \in {ClassPath(n, ".py"), ClassPath(n, ".java")}

MethodsOf(path) ==
    CHOOSE n \in 0..MaxMethods : path \in {ClassPath(n, ".py"), ClassPath(n, ".java")}

\* the class text and every method text of the file are within the size bounds
SizesAdmit(cfg, code) ==
    /\ Len(code) <= cfg.max_chunk_size
    /\ \A k \in DOMAIN Split(code) : cfg.min_chunk_size <= Len(Split(code)[k])

\* C2 (as claimed): a file holding one class with N methods, all within the
\* size bounds, class and method chunking enabled, yields exactly one class
\* chunk and N method chunks, each with parent_context = the class's name.
NestingCompleteness ==
    \A i \in DOMAIN runs :
        LET r == runs[i]
        IN  ( /\ IsClassFile(r.path)
              /\ DetectLanguage(r.path) \in parsers
              /\ config.chunk_by_classes /\ config.chunk_by_methods
              /\ SizesAdmit(config, r.code) )
            => /\ ~r.result.raised
               /\ Count(r.result.chunks, "class") = 1
               /\ Count(r.result.chunks, "method") = MethodsOf(r.path)
               /\ \A c \in Range(r.result.chunks), m \in Range(r.result.chunks) :
                      (c.chunk_type = "class" /\ m.chunk_type = "method")
                          => m.parent_context = c.name

SameKey(a, b) ==
    /\ a.file_path = b.file_path
    /\ a.start_line = b.start_line
    /\ a.content = b.content

\* C5 (as claimed): chunks that agree on file_path, start_line and content
\* have the same chunk_id, whatever their language, chunk_type, name or
\* parent_context.
IdFromPathLineContent ==
    \A a \in RunChunks, b \in RunChunks : SameKey(a, b) => a.chunk_id = b.chunk_id

\* C5 (amended): chunks that agree on language, chunk_type, file_path,
\* start_line and content have the same chunk_id, whatever their name,
\* parent_context, end_line or metadata.
IdFromTypedKey ==
    \A a \in RunChunks, b \in RunChunks :
        (SameKey(a, b) /\ a.language = b.language /\ a.chunk_type = b.chunk_type)
            => a.chunk_id = b.chunk_id

\* two chunks of one key and differing names were produced
IdFromTypedKeyWitness ==
    \E a \in RunChunks, b \in RunChunks :
        /\ SameKey(a, b) /\ a.language = b.language /\ a.chunk_type = b.chunk_type
        /\ a.name # b.name

----------------------------------------------------------------------------
(* The fallback chunker on arbitrary short texts *)

RECURSIVE Texts(_)
\* every text of exactly n characters over a letter and the line break
Texts(n) == IF n = 0 THEN {""} ELSE {t \o c : t \in Texts(n - 1), c \in {"a", NL}}

TextsUpTo(n) == UNION {Texts(k) : k \in 0..n}

\* no parser is loaded for a .ts file, so chunk_file takes the fallback path
InitFallback ==
    /\ \E mx \in 1..MaxWindow, mn \in {1, 2} :
           config = ConfigOf(TRUE, TRUE, TRUE, TRUE, TRUE, <<mn, mx>>)
    /\ parsers = LoadedParsers
    /\ \E t \in TextsUpTo(3 * MaxWindow) : disk = [p \in {"t.ts"} |-> t]
    /\ collection = EmptyDict
    /\ runs = <<>>
    /\ pool = {}
    /\ exported = NoFile
    /\ ret = NoRet
    /\ vector_store = Constructed

SpecFallback == InitFallback /\ [][NextChunker]_vars

WindowAligned(cfg, code) ==
    /\ Len(Split(code)) >= 3
    /\ Len(Split(code)[1]) = cfg.max_chunk_size
    /\ Len(Split(code)[2]) = cfg.max_chunk_size

----------------------------------------------------------------------------
(* The fallback chunker on files with any of the three line endings *)

\* longest file of the runs that read line endings
MaxRaw == 4

RECURSIVE RawTexts(_)
\* every file of exactly n characters over a letter, "\n" and "\r"
RawTexts(n) ==
    IF n = 0 THEN {""} ELSE {t \o c : t \in RawTexts(n - 1), c \in {"a", NL, CR}}

InitWindows ==
    /\ \E mx \in 1..MaxWindow : config = ConfigOf(TRUE, TRUE, TRUE, TRUE, TRUE, <<1, mx>>)
    /\ parsers = LoadedParsers
    /\ \E t \in UNION {RawTexts(k) : k \in 0..MaxRaw} : disk = [p \in {"t.ts"} |-> t]
    /\ collection = EmptyDict
    /\ runs = <<>>
    /\ pool = {}
    /\ exported = NoFile
    /\ ret = NoRet
    /\ vector_store = Constructed

SpecWindows == InitWindows /\ [][NextChunker]_vars

RECURSIVE Glue(_)
\* the strings of a list, one after the other
Glue(strings) == IF Len(strings) = 0 THEN "" ELSE Head(strings) \o Glue(Tail(strings))

\* the text with every line ending written as "\n": a "\n" that follows a
\* "\r" is left out, and every "\r" becomes "\n"
Normalized(s) ==
    Glue([i \in 1..Len(s) |->
             IF Char(s, i) = CR THEN NL
             ELSE IF Char(s, i) = NL /\ i > 1 /\ Char(s, i - 1) = CR THEN ""
             ELSE Char(s, i)])

\* the chunks cs are consecutive windows over the lines of text: in order,
\* from line 0 to the last line, each starting where the one before ended,
\* each holding its lines joined by newlines, and together the whole text
Partitions(cs, text) ==
    LET lines == Split(text)
    IN  /\ Len(cs) >= 1
        /\ cs[1].start_line = 0
        /\ cs[Len(cs)].end_line = Len(lines) - 1
        /\ \A k \in 1..(Len(cs) - 1) : cs[k + 1].start_line = cs[k].end_line + 1
        /\ \A k \in DOMAIN cs :
               /\ cs[k].chunk_type = "text_block"
               /\ cs[k].start_line <= cs[k].end_line
               /\ cs[k].content = Join(SubSeq(lines, cs[k].start_line + 1, cs[k].end_line + 1))
        /\ Join([k \in DOMAIN cs |-> cs[k].content]) = text

\* C21 (as claimed): the text_block chunks of the fallback chunker partition
\* the file into consecutive windows of lines, and joining their contents
\* with newlines reproduces the file text exactly.
FallbackPartitionsFile ==
    \A i \in DOMAIN runs :
        DetectLanguage(runs[i].path) \notin parsers
            => ~runs[i].result.raised /\ Partitions(runs[i].result.chunks, runs[i].code)

\* C21 (amended): the text_block chunks of the fallback chunker partition the
\* text read from the file, which is the file text with every "\r\n" and
\* "\r" written as "\n", into consecutive windows of lines; joining their
\* contents with newlines reproduces that text.
FallbackPartitionsReadText ==
    \A i \in DOMAIN runs :
        DetectLanguage(runs[i].path) \notin parsers
            => /\ ~runs[i].result.raised
               /\ Partitions(runs[i].result.chunks, Normalized(runs[i].code))

\* a file with a "\r\n" was chunked into more than one window
FallbackPartitionsWitness ==
    \E i \in DOMAIN runs :
        /\ DetectLanguage(runs[i].path) \notin parsers
        /\ Len(runs[i].result.chunks) >= 2
        /\ \E k \in 1..(Len(runs[i].code) - 1) :
               Char(runs[i].code, k) = CR /\ Char(runs[i].code, k + 1) = NL

----------------------------------------------------------------------------
(* The store and the indexing pipeline *)

\* the code paths indexed in the runs of the model
Repos == { {"d.py", "x.ts"}, {"One.java"}, {"two.js"}, {"a.py"} }

\* the code paths indexed before the retrievals of the model
SearchRepos == { {"a.py", "x.ts"}, {"One.java", "d.py"}, {"two.js"} }

StoreConfigs ==
    { ConfigOf(TRUE, TRUE, TRUE, ds, TRUE, sz) :
        ds \in BOOLEAN, sz \in {<<50, 2000>>, <<1, 2000>>} }

\* the same chunk object after its content was rewritten by its holder; the
\* id was fixed at construction and stays
Edited(chunk) ==
    [chunk EXCEPT !.content = "#" \o SubSeq(chunk.content, 2, Len(chunk.content))]

\* what chunk_file returns for the files, and an edited copy of the first
\* chunk of every file
PoolOf(cfg, prs, files) ==
    LET made(p) == ChunkFile(cfg, prs, p, files[p]).chunks
    IN  UNION {Range(made(p)) \cup {Edited(made(p)[i]) : i \in DOMAIN made(p) \cap {1}} :
                  p \in DOMAIN files}

\* the lists of at most n different chunk objects of a pool
RECURSIVE ListsOver(_, _)
ListsOver(S, n) ==
    IF n = 0 THEN {<<>>}
    ELSE LET shorter == ListsOver(S, n - 1)
         IN  shorter \cup UNION {{Append(l, c) : c \in S \ Range(l)} : l \in shorter}

\* a pipeline constructed over an empty collection and one of the repos
InitOn(repos) ==
    /\ config \in StoreConfigs
    /\ parsers = LoadedParsers
    /\ \E repo \in repos : disk = [p \in repo |-> AllFiles[p]]
    /\ collection = EmptyDict
    /\ runs = <<>>
    /\ pool = PoolOf(config, parsers, disk)
    /\ exported = NoFile
    /\ ret = NoRet
    /\ vector_store = Constructed

Init == InitOn(Repos)

\* rag.index_codebase(code_path)
IndexCodebaseCall ==
    \E order \in FileOrders(disk) :
        \E r \in {IndexCodebase(config, parsers, disk, order, collection)} :
            /\ collection' = r.coll
            /\ ret' = [op |-> "index_codebase", chunks |-> r.all_chunks,
                       raised |-> r.raised,
                       value |-> IF r.raised THEN NoStats ELSE r.stats]
            /\ UNCHANGED <<config, parsers, disk, runs, pool, exported, vector_store>>

\* vector_store.add_chunks(chunks, batch_size)
AddChunksCall ==
    \E chunks \in ListsOver(pool, MaxList), batch_size \in {1, DefaultBatchSize} :
        \E r \in {AddChunks(collection, chunks, batch_size)} :
            /\ collection' = r.coll
            /\ ret' = [op |-> "add_chunks", chunks |-> chunks, raised |-> r.raised,
                       value |-> IF r.raised THEN 0 ELSE r.value]
            /\ UNCHANGED <<config, parsers, disk, runs, pool, exported, vector_store>>

\* vector_store.update_chunk(chunk)
UpdateChunkCall ==
    \E chunk \in pool :
        \E r \in {UpdateChunk(collection, chunk)} :
            /\ collection' = r.coll
            /\ ret' = [op |-> "update_chunk", chunks |-> <<chunk>>, raised |-> r.raised,
                       value |-> 0]
            /\ UNCHANGED <<config, parsers, disk, runs, pool, exported, vector_store>>

\* the order in which collection.get() lists the stored ids
GetOrder(coll) ==
    CHOOSE o \in [1..Cardinality(DOMAIN coll) -> DOMAIN coll] :
        \A i \in DOMAIN o, j \in DOMAIN o : i # j => o[i] # o[j]

\* vector_store.export_chunks(output_path)
ExportChunksCall ==
    /\ exported' = [written |-> TRUE,
                    records |-> ExportRecords(collection, GetOrder(collection))]
    /\ ret' = [op |-> "export_chunks", chunks |-> <<>>, raised |-> FALSE,
               value |-> Cardinality(DOMAIN collection)]
    /\ UNCHANGED <<config, parsers, disk, collection, runs, pool, vector_store>>

\* vector_store.import_chunks(input_path) on the exported file
ImportChunksCall ==
    /\ exported.written
    /\ \E r \in {ImportChunks(collection, exported.records)} :
           /\ collection' = r.coll
           /\ ret' = [op |-> "import_chunks",
                      chunks |-> [i \in DOMAIN exported.records |->
                                     ChunkOfRecord(exported.records[i])],
                      raised |-> r.raised, value |-> 0]
    /\ UNCHANGED <<config, parsers, disk, runs, pool, exported, vector_store>>

Next ==
    \/ IndexCodebaseCall
    \/ AddChunksCall
    \/ UpdateChunkCall

Spec == Init /\ [][Next]_vars

\* export and import of what the pipeline and update_chunk stored
NextExport ==
    \/ IndexCodebaseCall
    \/ UpdateChunkCall
    \/ ExportChunksCall
    \/ ImportChunksCall

SpecExport == Init /\ [][NextExport]_vars

----------------------------------------------------------------------------
(* Retrieval: CodeVectorStore.search and PrivaRepoRAG.query *)

\* scores are kept in hundredths: cosine distance 0.3 is 30
One == 100

\* the distances the store reports in the runs of the model
Distances == {30, 90, 95}

\* largest explicit top_k of the runs
MaxTopK == 2

\* a where clause {key: value}, written <<key, value>>; Absent matches all
Matches(metadata, where) ==
    \/ where = Absent
    \/ /\ where[1] \in DOMAIN metadata
       /\ metadata[where[1]] = where[2]

\* collection.query is answered by the store without raising, also when the
\* collection holds fewer than n_results entries or none
QueryRaisesWhenShort(coll, n_results, where) ==
    n_results > Cardinality({id \in DOMAIN coll : Matches(coll[id].metadata, where)})

QueryRaises(coll, n_results, where) == FALSE

\* the candidate lists collection.query(n_results, where) can return (lines
\* 138-142): at most n_results entries that match the where clause, each id
\* once, as <<id, distance>>; ranking and distances are the store's
QueryResults(coll, n_results, where) ==
    LET hits == {id \in DOMAIN coll : Matches(coll[id].metadata, where)}
        n    == Min(n_results, Cardinality(hits))
    IN  {c \in [1..n -> hits \X Distances] :
            \A i \in 1..n, j \in 1..n : i # j => c[i][1] # c[j][1]}

\* similarity = 1 - distance (line 153)
SimilarityIsDistance(distance) == distance

Similarity(distance) == One - distance

\* the threshold test of line 156
KeepsStrict(similarity, similarity_threshold) == similarity > similarity_threshold

Keeps(similarity, similarity_threshold) == similarity >= similarity_threshold

\* 'rank': i + 1 for the 0-based index of enumerate, here for the 1-based i
RankInResult(i, retrieved_chunks) == Len(retrieved_chunks) + 1

RankOf(i, retrieved_chunks) == i

\* lines 130-133: only None selects the configured value
TopKOrDefault(cfg, top_k) == IF top_k = Absent THEN cfg.top_k ELSE top_k[1]

ThresholdWhenFalsy(cfg, similarity_threshold) ==
    IF similarity_threshold = Absent \/ similarity_threshold[1] = 0
    THEN cfg.similarity_threshold ELSE similarity_threshold[1]

ThresholdOrDefault(cfg, similarity_threshold) ==
    IF similarity_threshold = Absent
    THEN cfg.similarity_threshold ELSE similarity_threshold[1]

RECURSIVE SearchLoop(_, _, _, _, _)
\* the loop of lines 149-163 over the candidates; i is 1-based
SearchLoop(coll, cands, similarity_threshold, i, retrieved_chunks) ==
    IF i > Len(cands) THEN retrieved_chunks
    ELSE LET chunk_id   == cands[i][1]
             distance   == cands[i][2]
             similarity == Similarity(distance)
         IN  SearchLoop(coll, cands, similarity_threshold, i + 1,
                 IF Keeps(similarity, similarity_threshold)
                 THEN Append(retrieved_chunks,
                             [chunk_id |-> chunk_id, content |-> coll[chunk_id].document,
                              metadata |-> coll[chunk_id].metadata,
                              similarity |-> similarity,
                              rank |-> RankOf(i, retrieved_chunks)])
                 ELSE retrieved_chunks)

\* retrieved_chunks[:top_k] (line 166)
Untruncated(retrieved_chunks, top_k) == retrieved_chunks

Truncate(retrieved_chunks, top_k) ==
    SubSeq(retrieved_chunks, 1, Min(top_k, Len(retrieved_chunks)))

\* CodeVectorStore.search(query, top_k, filter_dict, similarity_threshold) when
\* the store answers the query with cands: [raised, retrieved, value]
Search(cfg, coll, cands, top_k, filter_dict, similarity_threshold) ==
    LET k         == TopKOrDefault(cfg, top_k)
        threshold == ThresholdOrDefault(cfg, similarity_threshold)
    IN  IF QueryRaises(coll, k * 2, filter_dict)
        THEN [raised |-> TRUE, retrieved |-> <<>>, value |-> <<>>]
        ELSE LET retrieved == IF Len(cands) > 0
                              THEN SearchLoop(coll, cands, threshold, 1, <<>>)
                              ELSE <<>>
             IN  [raised |-> FALSE, retrieved |-> retrieved,
                  value |-> Truncate(retrieved, k)]

\* the candidate lists the store can answer search's query with
SearchCandidates(cfg, coll, top_k, filter_dict) ==
    QueryResults(coll, TopKOrDefault(cfg, top_k) * 2, filter_dict)

\* lines 166-170 of query: the keyword arguments passed on to search
QueryTopK(top_k) == IF top_k # Absent /\ top_k[1] # 0 THEN top_k ELSE Absent

QueryFilter(language_filter) ==
    IF language_filter # Absent /\ language_filter[1] # ""
    THEN <<"language", language_filter[1]>> ELSE Absent

\* PrivaRepoRAG.query(question, top_k, language_filter, include_context) when
\* the store answers with cands and the model with answer: [raised, value]
Query(cfg, coll, cands, top_k, language_filter, include_context, answer) ==
    LET s == Search(cfg, coll, cands, QueryTopK(top_k), QueryFilter(language_filter), Absent)
    IN  IF s.raised THEN [raised |-> TRUE, retrieved |-> <<>>, value |-> <<>>]
        ELSE [raised |-> FALSE, retrieved |-> s.retrieved,
              value |-> [answer |-> answer,
                         retrieved_chunks |-> IF include_context THEN Given(s.value)
                                              ELSE Absent,
                         num_chunks |-> Len(s.value)]]

\* the arguments of the calls in the runs of the model
TopKs == {Absent} \cup {Given(k) : k \in 1..MaxTopK}

Thresholds == {Absent, Given(0), Given(80)}

Filters == {Absent, <<"language", "python">>, <<"chunk_type", "class">>}

LanguageFilters == {Absent, Given(""), Given("python")}

Answers == {"", "It returns os."}

\* search and query read the collection and leave it as it is: the store a
\* retrieval sees is the same whether or not another retrieval came before,
\* so a run of the model ends with its first retrieval
Retrieved == ret.op \in {"search", "query"}

\* vector_store.search(query, top_k, filter_dict, similarity_threshold)
SearchCall ==
    \E top_k \in TopKs, filter_dict \in Filters, similarity_threshold \in Thresholds :
      /\ ~Retrieved
      /\ \E cands \in SearchCandidates(config, collection, top_k, filter_dict) :
            \E r \in {Search(config, collection, cands, top_k, filter_dict,
                           similarity_threshold)} :
                /\ ret' = [op |-> "search", chunks |-> r.value, raised |-> r.raised,
                           value |-> [cands |-> cands, top_k |-> top_k,
                                      filter_dict |-> filter_dict,
                                      similarity_threshold |-> similarity_threshold,
                                      retrieved |-> r.retrieved]]
                /\ UNCHANGED <<config, parsers, disk, collection, runs, pool, exported, vector_store>>

\* rag.query(question, top_k, language_filter, include_context); the answer
\* is the model's text, or "" when generate caught an exception
QueryCall ==
    \E top_k \in TopKs \cup {Given(0)}, language_filter \in LanguageFilters,
       include_context \in BOOLEAN, answer \in Answers :
      /\ ~Retrieved
      /\ \E cands \in SearchCandidates(config, collection, QueryTopK(top_k),
                                      QueryFilter(language_filter)) :
            \E r \in {Query(config, collection, cands, top_k, language_filter,
                          include_context, answer)} :
                /\ ret' = [op |-> "query",
                           chunks |-> IF r.raised THEN <<>>
                                      ELSE Truncate(r.retrieved, r.value.num_chunks),
                           raised |-> r.raised,
                           value |-> [cands |-> cands, top_k |-> QueryTopK(top_k),
                                      filter_dict |-> QueryFilter(language_filter),
                                      similarity_threshold |-> Absent,
                                      retrieved |-> r.retrieved, result |-> r.value]]
                /\ UNCHANGED <<config, parsers, disk, collection, runs, pool, exported, vector_store>>

NextSearch ==
    \/ ~Retrieved /\ IndexCodebaseCall
    \/ SearchCall
    \/ QueryCall

InitSearch == InitOn(SearchRepos)

SpecSearch == InitSearch /\ [][NextSearch]_vars

----------------------------------------------------------------------------
(* The life of the stored chunks: indexing, maintenance, export and import *)

\* the code paths of these runs
StoreRepos == { {"a.py"}, {"d.py", "x.ts"}, {"One.java"} }

\* a later version of each file
Revised ==
    [p \in {"a.py", "d.py", "x.ts", "One.java"} |->
        CASE p = "a.py"     -> AllFiles["d.py"]
          [] p = "d.py"     -> AllFiles["a.py"]
          [] p = "x.ts"     -> "let x = 2;\nlet z: number = 3;"
          [] p = "One.java" -> AllFiles[ClassPath(1, ".java")]]

\* a path no chunk was read from
MissingPath == "gone.py"

\* an id no chunk has
MissingId == "0"

\* a pipeline over one of the code paths, with docstrings read
InitStore == InitOn(StoreRepos) /\ config.include_docstrings

\* the file at `path` is rewritten; no call has been made on the new text
EditFileCall ==
    \E path \in DOMAIN disk :
        /\ disk[path] = AllFiles[path]
        /\ disk' = [disk EXCEPT ![path] = Revised[path]]
        /\ ret' = NoRet
        /\ UNCHANGED <<config, parsers, collection, runs, pool, exported, vector_store>>

\* vector_store.delete_by_file(file_path)
DeleteByFileCall ==
    \E file_path \in DOMAIN disk \cup {MissingPath} :
        \E r \in {DeleteByFile(collection, file_path)} :
            /\ collection' = r.coll
            /\ ret' = [op |-> "delete_by_file", chunks |-> <<>>, raised |-> FALSE,
                       value |-> [file_path |-> file_path, count |-> r.value]]
            /\ UNCHANGED <<config, parsers, disk, runs, pool, exported, vector_store>>

\* vector_store.reset_collection(); the call returns None, value keeps the
\* number of entries of the collection it deleted
ResetCollectionCall ==
    /\ collection' = ResetCollection(collection)
    /\ ret' = [op |-> "reset_collection", chunks |-> <<>>, raised |-> FALSE,
               value |-> Cardinality(DOMAIN collection)]
    /\ UNCHANGED <<config, parsers, disk, runs, pool, exported, vector_store>>

\* a get_chunk_by_id that takes the entry out of the collection
GetChunkByIdCallPopping ==
    \E chunk_id \in {c.chunk_id : c \in pool} \cup {MissingId} :
        /\ ret' = [op |-> "get_chunk_by_id", chunks |-> <<>>, raised |-> FALSE,
                   value |-> [chunk_id |-> chunk_id,
                              result |-> GetChunkById(collection, chunk_id)]]
        /\ collection' = CollectionDelete(collection, {chunk_id})
        /\ UNCHANGED <<config, parsers, disk, runs, pool, exported, vector_store>>

\* vector_store.get_chunk_by_id(chunk_id)
GetChunkByIdCall ==
    \E chunk_id \in {c.chunk_id : c \in pool} \cup {MissingId} :
        /\ ret' = [op |-> "get_chunk_by_id", chunks |-> <<>>, raised |-> FALSE,
                   value |-> [chunk_id |-> chunk_id,
                              result |-> GetChunkById(collection, chunk_id)]]
        /\ UNCHANGED <<config, parsers, disk, collection, runs, pool, exported, vector_store>>

\* vector_store.get_statistics()
GetStatisticsCall ==
    \E sample \in Samples(collection) :
        /\ ret' = [op |-> "get_statistics", chunks |-> <<>>, raised |-> FALSE,
                   value |-> GetStatistics(collection, sample)]
        /\ UNCHANGED <<config, parsers, disk, collection, runs, pool, exported, vector_store>>

\* the first call of add_chunks on a collection that was just reset
AddAfterResetCall == ret.op = "reset_collection" /\ AddChunksCall

\* the retrievals of these runs are the ones that follow a reset
SearchAfterResetCall == ret.op = "reset_collection" /\ SearchCall

\* a call that only reads the collection leaves the store as the call before
\* it left it, so these runs end with their first read; the file is
\* exported once
Read == Retrieved \/ ret.op \in {"get_chunk_by_id", "get_statistics"}

NextStore ==
    \/ ~Read /\ IndexCodebaseCall
    \/ ~Read /\ UpdateChunkCall
    \/ ~Read /\ EditFileCall
    \/ ~Read /\ DeleteByFileCall
    \/ ~Read /\ ResetCollectionCall
    \/ ~Read /\ ~exported.written /\ ExportChunksCall
    \/ ~Read /\ ImportChunksCall
    \/ ~Read /\ GetChunkByIdCall
    \/ ~Read /\ GetStatisticsCall
    \/ AddAfterResetCall
    \/ SearchAfterResetCall

SpecStore == InitStore /\ [][NextStore]_vars

----------------------------------------------------------------------------
(* Reads between writes: the search wrappers, get_chunk_by_id,             *)
(* get_statistics and export_chunks on stores that hold chunks             *)

\* CodeVectorStore.search_by_file(file_path, query, top_k)
SearchByFile(cfg, coll, cands, file_path, top_k) ==
    Search(cfg, coll, cands, Given(top_k), <<"file_path", file_path>>, Absent)

\* CodeVectorStore.search_by_language(language, query, top_k)
SearchByLanguage(cfg, coll, cands, language, top_k) ==
    Search(cfg, coll, cands, Given(top_k), <<"language", language>>, Absent)

\* CodeVectorStore.search_functions(query, top_k)
SearchFunctions(cfg, coll, cands, top_k) ==
    Search(cfg, coll, cands, Given(top_k), <<"chunk_type", "function">>, Absent)

\* CodeVectorStore.search_classes(query, top_k)
SearchClasses(cfg, coll, cands, top_k) ==
    Search(cfg, coll, cands, Given(top_k), <<"chunk_type", "class">>, Absent)

\* the default top_k of the four wrappers
WrapperTopK == 5

\* the where clauses the wrappers of these runs pass on, by wrapper
WrapperFilters ==
    {<<"search_by_file", <<"file_path", p>>>> : p \in DOMAIN disk}
    \cup {<<"search_by_language", <<"language", l>>>> : l \in {"python", "java"}}
    \cup {<<"search_functions", <<"chunk_type", "function">>>>,
          <<"search_classes", <<"chunk_type", "class">>>>}

\* what the wrapper named op returns for its where clause
WrapperResult(op, where, cands, top_k) ==
    CASE op = "search_by_file" ->
             SearchByFile(config, collection, cands, where[2], top_k)
      [] op = "search_by_language" ->
             SearchByLanguage(config, collection, cands, where[2], top_k)
      [] op = "search_functions" -> SearchFunctions(config, collection, cands, top_k)
      [] op = "search_classes" -> SearchClasses(config, collection, cands, top_k)

\* a retrieval was made: these runs end with it
Searched ==
    Retrieved \/ ret.op \in {"search_by_file", "search_by_language", "search_functions",
                             "search_classes"}

\* one of the four wrappers is called, with top_k 1 or its default
SearchByCall ==
    \E w \in WrapperFilters, top_k \in {1, WrapperTopK} :
        /\ ~Searched
        /\ \E cands \in SearchCandidates(config, collection, Given(top_k), w[2]) :
               \E r \in {WrapperResult(w[1], w[2], cands, top_k)} :
                   /\ ret' = [op |-> w[1], chunks |-> r.value, raised |-> r.raised,
                              value |-> [cands |-> cands, top_k |-> Given(top_k),
                                         filter_dict |-> w[2],
                                         similarity_threshold |-> Absent,
                                         retrieved |-> r.retrieved]]
                   /\ UNCHANGED <<config, parsers, disk, collection, runs, pool, exported, vector_store>>

NextRead ==
    \/ ~Searched /\ IndexCodebaseCall
    \/ ~Searched /\ UpdateChunkCall
    \/ ~Searched /\ DeleteByFileCall
    \/ ~Searched /\ GetChunkByIdCall
    \/ ~Searched /\ GetStatisticsCall
    \/ ~Searched /\ ~exported.written /\ ExportChunksCall
    \/ ~Searched /\ SearchCall
    \/ SearchByCall

SpecRead == InitStore /\ [][NextRead]_vars

----------------------------------------------------------------------------
(* The statistics of stores up to and past the sample limit                *)

\* a store of n chunks of three types in two languages
StoreOfSize(n) ==
    [id \in {"id" \o ToString(i) : i \in 1..n} |->
        LET i == CHOOSE j \in 1..n : id = "id" \o ToString(j)
        IN  EntryOf(CodeChunkWithId("x" \o ToString(i),
                                    <<"function", "class", "import">>[(i % 3) + 1],
                                    <<"python", "java">>[(i % 2) + 1],
                                    "big.py", i, i, None, None, EmptyDict,
                                    "id" \o ToString(i)))]

\* a pipeline opened on a persisted collection of up to 101 chunks
InitStatistics ==
    /\ config \in StoreConfigs
    /\ parsers = LoadedParsers
    /\ disk = [p \in {"a.py"} |-> AllFiles[p]]
    /\ \E n \in 0..(SampleLimit + 1) : collection = StoreOfSize(n)
    /\ runs = <<>>
    /\ pool = PoolOf(config, parsers, disk)
    /\ exported = NoFile
    /\ ret = NoRet
    /\ vector_store = Constructed

SpecStatistics == InitStatistics /\ [][GetStatisticsCall]_vars

----------------------------------------------------------------------------
(* add_chunks on lists of several batches                                  *)

\* longest chunk list of the calls that write several batches
MaxBatchList == 4

\* vector_store.add_chunks(chunks, batch_size) on a list of up to
\* MaxBatchList chunks; value keeps the batch size, the ids stored before the
\* call and what the call returned
AddListCall ==
    \E chunks \in ListsOver(pool, MaxBatchList), batch_size \in {1, 2, DefaultBatchSize} :
        \E r \in {AddChunks(collection, chunks, batch_size)} :
            /\ ret.op # "add_chunks"
            /\ collection' = r.coll
            /\ ret' = [op |-> "add_chunks", chunks |-> chunks, raised |-> r.raised,
                       value |-> [batch_size |-> batch_size,
                                  stored_before |-> DOMAIN collection,
                                  returned |-> r.value]]
            /\ UNCHANGED <<config, parsers, disk, runs, pool, exported, vector_store>>

NextBatches ==
    \/ ret.op = "none" /\ IndexCodebaseCall
    \/ AddListCall

SpecBatches == InitOn(Repos) /\ [][NextBatches]_vars

----------------------------------------------------------------------------
(* Startup: PrivaRepoRAG.__init__ and CodeVectorStore.__init__ *)

\* CodeVectorStore(config) (lines 23-28): the attributes are set to None and
\* _initialize runs; an exception of _initialize leaves the constructor, and
\* the caller gets no object
Construct(coll, exists, client_ok, get_ok, create_ok) ==
    LET r == Initialize(coll, exists, client_ok, get_ok, create_ok)
    IN  [raised |-> r.raised,
         vector_store |-> [returned |-> ~r.raised, client |-> r.client,
                           collection |-> r.collection],
         coll |-> r.coll]

\* the code paths of the startup runs
StartupRepos == { {"a.py"}, {"d.py", "x.ts"} }

\* no process runs yet and the persist directory holds no collection
InitStartup ==
    /\ config \in StoreConfigs
    /\ parsers = LoadedParsers
    /\ \E repo \in StartupRepos : disk = [p \in repo |-> AllFiles[p]]
    /\ collection = EmptyDict
    /\ runs = <<>>
    /\ pool = PoolOf(config, parsers, disk)
    /\ exported = NoFile
    /\ ret = NoRet
    /\ vector_store = Unconstructed

\* PrivaRepoRAG(config): the chunker, then CodeVectorStore(config.chromadb),
\* then OllamaLLM, whose constructor catches what its connection check
\* raises; value keeps what the store's environment answered
ConstructCall ==
    \E exists \in BOOLEAN, client_ok \in BOOLEAN, get_ok \in BOOLEAN, create_ok \in BOOLEAN :
        /\ ret.op = "none"
        /\ collection # EmptyDict => exists
        /\ \E r \in {Construct(collection, exists, client_ok, get_ok, create_ok)} :
               /\ vector_store' = r.vector_store
               /\ collection' = r.coll
               /\ ret' = [op |-> "construct", chunks |-> <<>>, raised |-> r.raised,
                          value |-> [exists |-> exists, client_ok |-> client_ok,
                                     get_ok |-> get_ok, create_ok |-> create_ok]]
        /\ UNCHANGED <<config, parsers, disk, runs, pool, exported>>

\* the process ends, after a constructor that raised or after its calls; the
\* persist directory keeps the collection
ExitCall ==
    /\ ret.op # "none"
    /\ vector_store' = Unconstructed
    /\ ret' = NoRet
    /\ UNCHANGED <<config, parsers, disk, collection, runs, pool, exported>>

\* a method is called on the object the constructor returned
NextStartup ==
    \/ ConstructCall
    \/ ExitCall
    \/ vector_store.returned /\ ~Read /\ IndexCodebaseCall
    \/ vector_store.returned /\ ~Read /\ DeleteByFileCall
    \/ vector_store.returned /\ ~Read /\ GetChunkByIdCall
    \/ vector_store.returned /\ ~Read /\ GetStatisticsCall

SpecStartup == InitStartup /\ [][NextStartup]_vars

----------------------------------------------------------------------------
(* Properties of the store *)

\* C1 (as claimed): every chunk held in the store has a content of at least
\* min_chunk_size and at most max_chunk_size characters, whichever path
\* produced it.
SizeBound ==
    \A id \in DOMAIN collection :
        /\ config.min_chunk_size <= Len(collection[id].document)
        /\ Len(collection[id].document) <= config.max_chunk_size

\* C3 (as claimed): add_chunks succeeds on every store and every chunk list,
\* and afterwards each chunk's id maps to that chunk's content and metadata:
\* an id already present is overwritten, an absent id is inserted, and no
\* other entry appears.
UpsertOnAdd ==
    [][ret'.op = "add_chunks"
          => /\ ~ret'.raised
             /\ DOMAIN collection' =
                    (DOMAIN collection) \cup {ret'.chunks[i].chunk_id : i \in DOMAIN ret'.chunks}
             /\ \A i \in DOMAIN ret'.chunks :
                    collection'[ret'.chunks[i].chunk_id] =
                        EntryOf(LastWith(ret'.chunks, ret'.chunks[i].chunk_id))]_vars

----------------------------------------------------------------------------
(* Properties of retrieval *)

\* the top_k and the threshold a recorded retrieval ran with
CallTopK == IF ret.value.top_k = Absent THEN DefaultTopK ELSE ret.value.top_k[1]

CallThreshold ==
    IF ret.value.similarity_threshold = Absent THEN DefaultThreshold
    ELSE ret.value.similarity_threshold[1]

\* the candidates whose similarity reaches the threshold, in the store's order
Passing(cands, threshold) == SelectSeq(cands, LAMBDA c : One - c[2] >= threshold)

FirstK(seq, k) == SubSeq(seq, 1, Min(k, Len(seq)))

\* C6: the result of a search is the first top_k of the candidates whose
\* similarity is >= the threshold, in the store's order: nothing dropped
\* appears, no kept pair is reordered, and there are at most top_k entries.
ThresholdKeepsOrder ==
    Retrieved =>
        LET want == FirstK(Passing(ret.value.cands, CallThreshold), CallTopK)
        IN  /\ ~ret.raised
            /\ Len(ret.chunks) <= CallTopK
            /\ Ids(ret.chunks) = [i \in DOMAIN want |-> want[i][1]]

\* a search whose second of three candidates was dropped between two kept
ThresholdKeepsOrderWitness ==
    /\ ret.op = "search"
    /\ Len(ret.value.cands) = 3
    /\ One - ret.value.cands[2][2] < CallThreshold
    /\ Ids(ret.chunks) = <<ret.value.cands[1][1], ret.value.cands[3][1]>>

\* C7: every entry of a result carries the 1-based position its candidate had
\* in the store's candidate list; ranks are strictly increasing and lie in
\* 1..2*top_k.
RankIsStoreRank ==
    Retrieved =>
        /\ ~ret.raised
        /\ \A k \in DOMAIN ret.chunks :
            /\ ret.chunks[k].rank \in 1..Len(ret.value.cands)
            /\ ret.chunks[k].rank <= 2 * CallTopK
            /\ ret.value.cands[ret.chunks[k].rank][1] = ret.chunks[k].chunk_id
            /\ \A j \in 1..(k - 1) : ret.chunks[j].rank < ret.chunks[k].rank

\* a result whose ranks have a gap
RankIsStoreRankWitness ==
    /\ Retrieved
    /\ \E k \in DOMAIN ret.chunks : ret.chunks[k].rank > k

\* C8: similarity = 1 - distance, a candidate is kept exactly when its
\* similarity is >= the threshold (equality keeps it), the threshold is the
\* configured 0.1 when none is passed and the passed value otherwise, 0
\* included.
SimilarityAndThreshold ==
    Retrieved =>
        LET cands == ret.value.cands
            kept  == ret.value.retrieved
        IN  /\ ~ret.raised
            /\ \A i \in DOMAIN cands :
                   (\E k \in DOMAIN kept : kept[k].chunk_id = cands[i][1])
                       <=> (One - cands[i][2] >= CallThreshold)
            /\ \A k \in DOMAIN kept, i \in DOMAIN cands :
                   kept[k].chunk_id = cands[i][1]
                       => kept[k].similarity = One - cands[i][2]

\* under the default threshold a candidate at distance 0.9 was kept, one at
\* 0.95 dropped, and one at 0.3 kept with similarity 0.7
SimilarityAndThresholdWitness ==
    /\ Retrieved
    /\ ret.value.similarity_threshold = Absent
    /\ {ret.value.cands[i][2] : i \in DOMAIN ret.value.cands} = {30, 90, 95}
    /\ {ret.value.retrieved[k].similarity : k \in DOMAIN ret.value.retrieved} = {70, 10}

\* the store is empty, or the filter matches no chunk, or no candidate
\* reaches the threshold
NoHit ==
    \/ DOMAIN collection = {}
    \/ \A id \in DOMAIN collection : ~Matches(collection[id].metadata, ret.value.filter_dict)
    \/ \A i \in DOMAIN ret.value.cands : One - ret.value.cands[i][2] < CallThreshold

\* C9: a search on an empty store, with a filter that matches nothing, or
\* with no candidate at the threshold returns an empty list and raises
\* nothing; query then returns a result record with num_chunks = 0.
NoResultIsNoError ==
    /\ (ret.op = "search" /\ NoHit) => (~ret.raised /\ ret.chunks = <<>>)
    /\ (ret.op = "query" /\ NoHit)
           => (~ret.raised /\ ret.chunks = <<>> /\ ret.value.result.num_chunks = 0)

\* a query on a filled store whose candidates all stay under the threshold
NoResultIsNoErrorWitness ==
    /\ ret.op = "query"
    /\ Len(ret.value.cands) > 0
    /\ NoHit
    /\ ret.value.result.num_chunks = 0

----------------------------------------------------------------------------
(* chunk_file and index_codebase over directories that also hold files in  *)
(* languages without a parser                                              *)

\* files of a language without grammar and of an unknown extension
OtherFiles ==
    [p \in {"m.cpp", "notes.txt"} |->
        IF p = "m.cpp" THEN "int main() {\n  return 0;\n}" ELSE "to do\nnothing"]

FileText(p) == IF p \in DOMAIN OtherFiles THEN OtherFiles[p] ELSE AllFiles[p]

IndexRepos == { {"d.py", "x.ts", "notes.txt"}, {"a.py", "m.cpp"}, {"two.js", "One.java"} }

\* a pipeline over one of the directories; the parsers are loaded, or none
\* is when _initialize_parsers caught an exception
InitIndex ==
    /\ config \in StoreConfigs
    /\ parsers \in {LoadedParsers, {}}
    /\ \E repo \in IndexRepos : disk = [p \in repo |-> FileText(p)]
    /\ collection = EmptyDict
    /\ runs = <<>>
    /\ pool = {}
    /\ exported = NoFile
    /\ ret = NoRet
    /\ vector_store = Constructed

NextIndex ==
    \/ NextChunker
    \/ IndexCodebaseCall

SpecIndex == InitIndex /\ [][NextIndex]_vars

----------------------------------------------------------------------------
(* Properties of an indexing run *)

\* the files of the directory on which chunk_file raises
RaisingFiles == {p \in DOMAIN disk : ChunkFile(config, parsers, p, disk[p]).raised}

\* C11 (as claimed): a file whose extraction raised during indexing is
\* counted in errors and is still chunked by the fallback, so text_block
\* chunks of it are in the store after the run.
ParseFailureFallsBack ==
    (ret.op = "index_codebase" /\ ~ret.raised) =>
        \A p \in RaisingFiles :
            /\ ret.value.errors >= 1
            /\ \E id \in DOMAIN collection :
                   /\ collection[id].metadata.file_path = p
                   /\ collection[id].metadata.chunk_type = "text_block"

\* the files index_codebase lists, and those of them without a parser
Globbed == {p \in DOMAIN disk : ExtRank(p) > 0}

Unsupported == {p \in Globbed : DetectLanguage(p) \notin parsers}

\* C12: for a file of unknown extension or of a language without a loaded
\* parser chunk_file raises nothing and returns only text_block chunks
\* tagged with the detected language; index_codebase counts every such file
\* in files_processed and none of them in errors.
UnsupportedIsNoError ==
    /\ \A i \in DOMAIN runs :
           DetectLanguage(runs[i].path) \notin parsers
               => /\ ~runs[i].result.raised
                  /\ \A c \in Range(runs[i].result.chunks) :
                         /\ c.chunk_type = "text_block"
                         /\ c.language = DetectLanguage(runs[i].path)
    /\ (ret.op = "index_codebase" /\ ~ret.raised)
           => /\ ret.value.files_processed + ret.value.errors = Cardinality(Globbed)
              /\ ret.value.files_processed >= Cardinality(Unsupported)
              /\ ret.value.errors <= Cardinality(Globbed \ Unsupported)

\* chunk_file ran on a file of unknown extension and on one of a language
\* without grammar, and an indexing run over the directory counted no error
UnsupportedIsNoErrorWitness ==
    /\ \E i \in DOMAIN runs :
           /\ DetectLanguage(runs[i].path) = "unknown"
           /\ Len(runs[i].result.chunks) > 0
    /\ \E i \in DOMAIN runs :
           /\ DetectLanguage(runs[i].path) = "typescript"
           /\ Len(runs[i].result.chunks) > 0
    /\ ret.op = "index_codebase"
    /\ parsers = LoadedParsers
    /\ ret.value.errors = 0
    /\ ret.value.files_processed = Cardinality(Globbed)

\* what chunk_file returns for a file of the directory
ChunksOf(p) == ChunkFile(config, parsers, p, disk[p]).chunks

\* C13: chunk_file raising on some files does not end the run: every other
\* listed file is chunked and all its chunks are handed to the store in the
\* same run, which returns its statistics; the run raises exactly when the
\* store write does.
BadFileNeverAborts ==
    ret.op = "index_codebase" =>
        LET good == Globbed \ RaisingFiles
        IN  /\ Range(ret.chunks) = UNION {Range(ChunksOf(p)) : p \in good}
            /\ ret.raised <=> HasDuplicates(Ids(ret.chunks))
            /\ ~ret.raised
                   => /\ ret.value.errors = Cardinality(Globbed \cap RaisingFiles)
                      /\ ret.value.files_processed = Cardinality(good)
                      /\ \A c \in Range(ret.chunks) : c.chunk_id \in DOMAIN collection

\* a run in which chunk_file raised on one file and the chunks of a file
\* listed after it were stored
BadFileNeverAbortsWitness ==
    /\ ret.op = "index_codebase"
    /\ ~ret.raised
    /\ ret.value.errors = 1
    /\ \E p \in RaisingFiles, q \in Globbed \ RaisingFiles :
           /\ ExtRank(p) < ExtRank(q)
           /\ \E c \in Range(ChunksOf(q)) : c.chunk_id \in DOMAIN collection

----------------------------------------------------------------------------
(* Properties of the life of the stored chunks *)

\* the stored ids whose chunk was read from file_path
IdsOfFile(coll, file_path) == {id \in DOMAIN coll : coll[id].metadata.file_path = file_path}

\* C14: delete_by_file(p) removes the stored chunks whose file_path is p and
\* no other, returns how many it removed (0 when none), and leaves every
\* other entry as it was; update_chunk, which deletes one id, leaves every
\* entry under another id as it was, whatever class or method of the same
\* file it holds.
DeleteExactlyMatching ==
    [][/\ ret'.op = "delete_by_file"
            => LET gone == IdsOfFile(collection, ret'.value.file_path)
               IN  /\ DOMAIN collection' = (DOMAIN collection) \ gone
                   /\ \A id \in DOMAIN collection' : collection'[id] = collection[id]
                   /\ ret'.value.count = Cardinality(gone)
       /\ ret'.op = "update_chunk"
            => \A id \in (DOMAIN collection) \ {ret'.chunks[1].chunk_id} :
                   /\ id \in DOMAIN collection'
                   /\ collection'[id] = collection[id]
      ]_vars

\* delete_by_file removed the chunks of one file and left those of another
DeleteExactlyMatchingWitness ==
    /\ ret.op = "delete_by_file"
    /\ ret.value.count > 0
    /\ collection # EmptyDict
    /\ IdsOfFile(collection, ret.value.file_path) = {}

\* the calls that add to the store or only read it
NonDeleting ==
    {"add_chunks", "index_codebase", "import_chunks", "search", "get_chunk_by_id",
     "get_statistics", "export_chunks"}

\* the ids chunk_file gives the chunks of a text at a path
IdsOfText(path, text) ==
    {c.chunk_id : c \in Range(ChunkFile(config, parsers, path, text).chunks)}

\* C15: a stored id leaves the store only in a delete_by_file on its
\* file_path or in a reset_collection; add_chunks, index_codebase,
\* import_chunks, search, get_chunk_by_id, get_statistics and export_chunks
\* never lower the number of stored chunks; index_codebase leaves every
\* entry it finds as it was, so the chunks of the old version of a changed
\* file stay.
ChunkLifecycle ==
    [][/\ \A id \in (DOMAIN collection) \ (DOMAIN collection') :
              \/ /\ ret'.op = "delete_by_file"
                 /\ collection[id].metadata.file_path = ret'.value.file_path
              \/ ret'.op = "reset_collection"
       /\ ret'.op \in NonDeleting
              => /\ DOMAIN collection \subseteq DOMAIN collection'
                 /\ Cardinality(DOMAIN collection') >= Cardinality(DOMAIN collection)
       /\ ret'.op = "index_codebase"
              => \A id \in DOMAIN collection : collection'[id] = collection[id]
      ]_vars

\* a file was changed and indexed again: the store holds a chunk that only
\* the old text has and a chunk that only the new text has
ChunkLifecycleWitness ==
    /\ ret.op = "index_codebase"
    /\ ~ret.raised
    /\ \E p \in DOMAIN disk :
           /\ disk[p] # AllFiles[p]
           /\ \E old \in IdsOfText(p, AllFiles[p]) \ IdsOfText(p, disk[p]) :
                  /\ old \in DOMAIN collection
                  /\ collection[old].metadata.file_path = p
           /\ \E new \in IdsOfText(p, disk[p]) \ IdsOfText(p, AllFiles[p]) :
                  new \in DOMAIN collection

\* the first chunk of a list that carries the id
FirstWith(chunks, id) ==
    chunks[CHOOSE i \in DOMAIN chunks :
               chunks[i].chunk_id = id /\ \A j \in 1..(i - 1) : chunks[j].chunk_id # id]

\* C16: reset_collection leaves a collection in which get_statistics counts
\* 0 chunks, get_chunk_by_id finds no id and every search returns the empty
\* list, whatever was stored before; the calls that follow the reset answer
\* so, and an add_chunks that follows it inserts its chunks.
ResetEmpties ==
    [][/\ ret'.op = "reset_collection"
            => /\ \A sample \in Samples(collection') :
                      GetStatistics(collection', sample).total_chunks = 0
               /\ \A id \in (DOMAIN collection) \cup {MissingId} :
                      GetChunkById(collection', id) = Absent
               /\ \A top_k \in TopKs, filter_dict \in Filters, threshold \in Thresholds :
                      \A cands \in SearchCandidates(config, collection', top_k, filter_dict) :
                          LET r == Search(config, collection', cands, top_k, filter_dict,
                                          threshold)
                          IN  ~r.raised /\ r.value = <<>>
       /\ ret.op = "reset_collection"
            => /\ ret'.op = "get_statistics" => ret'.value.total_chunks = 0
               /\ ret'.op = "get_chunk_by_id" => ret'.value.result = Absent
               /\ ret'.op = "search" => ~ret'.raised /\ ret'.chunks = <<>>
               /\ ret'.op = "add_chunks"
                      => /\ ret'.raised => HasDuplicates(Ids(ret'.chunks))
                         /\ ~ret'.raised
                                => /\ ret'.value = Len(ret'.chunks)
                                   /\ DOMAIN collection' =
                                          {c.chunk_id : c \in Range(ret'.chunks)}
                                   /\ \A id \in DOMAIN collection' :
                                          collection'[id] = EntryOf(FirstWith(ret'.chunks, id))
      ]_vars

\* a reset of a collection that held chunks
ResetEmptiesWitness ==
    /\ ret.op = "reset_collection"
    /\ ret.value > 0
    /\ collection = EmptyDict

\* C17 (as claimed): import_chunks of the exported file into the collection
\* reset_collection left restores the exported records: the same ids, and
\* under each id the same content and the same metadata mapping.
ExportImportRoundTrip ==
    [][(ret.op = "reset_collection" /\ ret'.op = "import_chunks")
            => /\ ~ret'.raised
               /\ DOMAIN collection' = {exported.records[i].id : i \in DOMAIN exported.records}
               /\ \A i \in DOMAIN exported.records :
                      /\ collection'[exported.records[i].id].document =
                             exported.records[i].content
                      /\ collection'[exported.records[i].id].metadata =
                             exported.records[i].metadata
      ]_vars

----------------------------------------------------------------------------
(* Properties of the startup *)

\* the constructor's environment lets the collection be loaded or created
CollectionAvailable(env) == (env.exists /\ env.get_ok) \/ (~env.exists /\ env.create_ok)

\* C18: when the client cannot be created, or the collection can be neither
\* loaded nor created, the constructor raises and returns no object; an
\* object that was returned has its client and its collection set, and every
\* later call runs on such an object.
StartupIsFatal ==
    /\ ret.op = "construct"
           => /\ (~ret.value.client_ok \/ ~CollectionAvailable(ret.value))
                     => ret.raised /\ ~vector_store.returned
              /\ ret.raised => ~vector_store.returned
    /\ vector_store.returned => vector_store.client /\ vector_store.collection
    /\ ret.op \notin {"none", "construct"}
           => vector_store.returned /\ vector_store.collection

\* the client was created, the collection exists but could not be loaded,
\* and the constructor raised
StartupIsFatalWitness ==
    /\ ret.op = "construct"
    /\ ret.value.client_ok
    /\ ret.value.exists
    /\ ~ret.value.get_ok
    /\ ret.raised
    /\ ~vector_store.returned
    /\ ~vector_store.collection

----------------------------------------------------------------------------
(* Properties of the extractors *)

\* the node types the extractors turn into function or method chunks
FunctionLike ==
    {"function_definition", "function_declaration", "function", "method_declaration"}

\* what the extractor of the file's language appends for a text, before the
\* size filter of chunk_file
Extracted(path, code) ==
    LET language == DetectLanguage(path)
        tree     == Parse(language, code)
    IN  CASE language = "python" -> ExtractPythonChunks(config, tree, Split(code), path)
          [] language = "javascript" ->
                 ExtractJavascriptChunks(config, tree, Split(code), path, language)
          [] language = "java" -> ExtractJavaChunks(config, tree, Split(code), path)

\* the positions of the chunks that were built from node nid of the tree
EmittedFor(chunks, tree, nid, code_lines) ==
    {k \in DOMAIN chunks :
        /\ chunks[k].chunk_type \in {"function", "method"}
        /\ chunks[k].start_line = tree[nid].sr
        /\ chunks[k].end_line = tree[nid].er
        /\ chunks[k].name = GetNodeText(tree, tree[nid].name, code_lines)}

\* the function-like nodes of a tree
FunctionNodes(tree) == {nid \in DOMAIN tree : tree[nid].type \in FunctionLike}

----------------------------------------------------------------------------
(* Properties of the statistics of an indexing run *)

\* the candidate chunks of a parsed file, before the size filter
Candidates(path, code) ==
    (IF config.include_imports
     THEN ExtractImports(Parse(DetectLanguage(path), code), Split(code), path,
                         DetectLanguage(path))
     ELSE <<>>) \o Extracted(path, code).chunks

\* how many candidate chunks of a file the size filter of chunk_file drops
RejectedOf(path, code) ==
    IF DetectLanguage(path) \notin parsers \/ ChunkFile(config, parsers, path, code).raised
    THEN 0
    ELSE Len(Candidates(path, code)) - Len(ChunkFile(config, parsers, path, code).chunks)

RECURSIVE RejectedIn(_, _)
\* the same over the listed files of a directory
RejectedIn(files, paths) ==
    IF paths = {} THEN 0
    ELSE LET p == CHOOSE q \in paths : TRUE
         IN  RejectedOf(p, files[p]) + RejectedIn(files, paths \ {p})

\* the statistics index_codebase returns for a directory, NoStats if it raises
StatsOf(files) ==
    LET r == IndexCodebase(config, parsers, files,
                           CHOOSE order \in FileOrders(files) : TRUE, EmptyDict)
    IN  IF r.raised THEN NoStats ELSE r.stats

\* C20 (as claimed): the statistics an indexing run returns reflect the
\* number of chunks the size filter rejected: two directories indexed under
\* the same configuration with the same statistics had the same number of
\* rejected chunks.
RejectedIsCounted ==
    (ret.op = "index_codebase" /\ ~ret.raised)
        => \A repo \in Repos :
               LET other == [p \in repo |-> AllFiles[p]]
               IN  StatsOf(other) = ret.value
                       => RejectedIn(other, DOMAIN other) = RejectedIn(disk, DOMAIN disk)

----------------------------------------------------------------------------
(* Properties of the chunks of the syntax-tree path *)

ClassLike == {"class_definition", "class_declaration"}

RECURSIVE Descendants(_, _)
\* the nodes below node nid
Descendants(tree, nid) ==
    UNION {{tree[nid].children[k]} \cup Descendants(tree, tree[nid].children[k]) :
              k \in DOMAIN tree[nid].children}

\* the class-like nodes that enclose node nid
EnclosingClasses(tree, nid) ==
    {c \in DOMAIN tree : tree[c].type \in ClassLike /\ nid \in Descendants(tree, c)}

\* C22 (as claimed): in Python and Java extraction a function-like node
\* outside every class is emitted as a function chunk, a function-like node
\* inside a class is emitted as a method chunk whose parent_context names
\* that class, and only method chunks carry a parent_context.
FunctionVersusMethod ==
    \A i \in DOMAIN runs :
        (DetectLanguage(runs[i].path) \in {"python", "java"} \cap parsers
         /\ ~runs[i].result.raised)
            => LET tree  == Parse(DetectLanguage(runs[i].path), runs[i].code)
                   lines == Split(runs[i].code)
                   made  == Extracted(runs[i].path, runs[i].code).chunks
               IN  /\ \A nid \in FunctionNodes(tree) :
                          \A k \in EmittedFor(made, tree, nid, lines) :
                              IF EnclosingClasses(tree, nid) = {}
                              THEN made[k].chunk_type = "function"
                              ELSE /\ made[k].chunk_type = "method"
                                   /\ \E c \in EnclosingClasses(tree, nid) :
                                          made[k].parent_context =
                                              GetNodeText(tree, tree[c].name, lines)
                   /\ \A k \in DOMAIN made :
                          Truthy(made[k].parent_context) => made[k].chunk_type = "method"

\* the chunk holds exactly the lines start_line..end_line of the text
HoldsItsLines(chunk, lines) ==
    /\ 0 <= chunk.start_line
    /\ chunk.start_line <= chunk.end_line
    /\ chunk.end_line < Len(lines)
    /\ chunk.content = Join(SubSeq(lines, chunk.start_line + 1, chunk.end_line + 1))

\* C23: every class, function, method and import chunk that the syntax-tree
\* path of chunk_file builds or returns has 0 <= start_line <= end_line <
\* number of lines and holds exactly the lines start_line..end_line joined by
\* newlines, whether or not the function has a docstring.
ContentIsPhysicalLines ==
    \A i \in DOMAIN runs :
        (DetectLanguage(runs[i].path) \in parsers /\ ~runs[i].result.raised)
            => /\ \A c \in Range(Candidates(runs[i].path, runs[i].code)) :
                      HoldsItsLines(c, Split(runs[i].code))
               /\ \A c \in Range(runs[i].result.chunks) :
                      HoldsItsLines(c, Split(runs[i].code))

\* a function with a docstring was chunked with include_docstrings on
ContentIsPhysicalLinesWitness ==
    \E i \in DOMAIN runs :
        /\ "python" \in parsers
        /\ config.include_docstrings
        /\ \E c \in Range(runs[i].result.chunks) :
               /\ c.chunk_type = "function"
               /\ c.metadata.has_docstring
               /\ c.end_line > c.start_line

----------------------------------------------------------------------------
(* Properties of the reading calls                                         *)

\* the calls that only read the store
ReadingCalls ==
    {"search", "search_by_file", "search_by_language", "search_functions",
     "search_classes", "get_chunk_by_id", "get_statistics", "export_chunks"}

\* C24: search, search_by_file, search_by_language, search_functions,
\* search_classes, get_chunk_by_id, get_statistics and export_chunks leave the
\* stored ids, their content and their metadata as they were, and with them
\* everything a later write or read works from.
RetrievalIsReadOnly ==
    [][ret'.op \in ReadingCalls
           => UNCHANGED <<collection, config, parsers, disk, vector_store>>]_vars

\* a wrapper returned chunks of a store that was exported before
RetrievalIsReadOnlyWitness ==
    /\ ret.op = "search_functions"
    /\ Len(ret.chunks) >= 1
    /\ exported.written
    /\ collection # EmptyDict

\* the sum of the counts of a histogram
RECURSIVE SumOver(_, _)
SumOver(h, keys) ==
    IF keys = {} THEN 0
    ELSE LET k == CHOOSE x \in keys : TRUE
         IN  h[k] + SumOver(h, keys \ {k})

\* the histogram is there and its counts sum to n
SumsTo(histogram, n) ==
    /\ histogram # Absent
    /\ SumOver(histogram[1], DOMAIN histogram[1]) = n

\* C25 as stated: for every store state, the empty store included,
\* get_statistics returns the exact number of entries with a chunk-type and
\* a language histogram whose counts each sum to min(total_chunks, 100).
StatisticsShape ==
    ret.op = "get_statistics"
        => /\ ret.value.total_chunks = Cardinality(DOMAIN collection)
           /\ SumsTo(ret.value.chunk_types, Min(ret.value.total_chunks, SampleLimit))
           /\ SumsTo(ret.value.languages, Min(ret.value.total_chunks, SampleLimit))

\* C25: get_statistics returns the exact number of entries; on a store that
\* holds entries it returns a chunk-type and a language histogram whose
\* counts each sum to min(total_chunks, 100), and on the empty store it
\* returns neither histogram.
StatisticsShapeNonEmpty ==
    ret.op = "get_statistics"
        => /\ ret.value.total_chunks = Cardinality(DOMAIN collection)
           /\ IF collection = EmptyDict
              THEN ret.value.chunk_types = Absent /\ ret.value.languages = Absent
              ELSE /\ SumsTo(ret.value.chunk_types,
                             Min(ret.value.total_chunks, SampleLimit))
                   /\ SumsTo(ret.value.languages,
                             Min(ret.value.total_chunks, SampleLimit))

\* the statistics of a store that holds more entries than the sample
StatisticsShapeWitness ==
    /\ ret.op = "get_statistics"
    /\ ret.value.total_chunks > SampleLimit
    /\ ret.value.chunk_types # Absent

----------------------------------------------------------------------------
(* Properties of the docstring option                                      *)

\* the function and method chunks of a list, in order
FunctionChunks(chunks) ==
    SelectSeq(chunks, LAMBDA c : c.chunk_type \in {"function", "method"})

\* where a chunk lies and what it holds
SpanAndContent(chunks) ==
    [i \in DOMAIN chunks |->
        <<chunks[i].start_line, chunks[i].end_line, chunks[i].content>>]

\* C26: with include_docstrings off, chunk_file on a Python file that holds
\* functions returns without raising, and its function and method chunks have
\* the spans and the content of those of the same call with the option on.
DocstringsAreOptional ==
    \A i \in DOMAIN runs :
        ( /\ ~config.include_docstrings
          /\ DetectLanguage(runs[i].path) = "python"
          /\ "python" \in parsers
          /\ FunctionNodes(Parse("python", ReadText(runs[i].code))) # {} )
            => /\ ~runs[i].result.raised
               /\ SpanAndContent(FunctionChunks(runs[i].result.chunks))
                      = SpanAndContent(FunctionChunks(
                            ChunkFile([config EXCEPT !.include_docstrings = TRUE],
                                      parsers, runs[i].path, runs[i].code).chunks))

----------------------------------------------------------------------------
(* Properties of update_chunk                                              *)

\* C27: update_chunk(c) on a store that holds c.chunk_id leaves the entry of
\* that id with c's content and metadata, every other entry as it was and the
\* number of entries the same; on a store that does not hold the id it
\* inserts c and the number of entries grows by one.
UpdateReplacesInPlace ==
    [][ret'.op = "update_chunk"
           => LET c == ret'.chunks[1]
              IN  /\ ~ret'.raised
                  /\ DOMAIN collection' = (DOMAIN collection) \cup {c.chunk_id}
                  /\ collection'[c.chunk_id] = EntryOf(c)
                  /\ \A id \in (DOMAIN collection) \ {c.chunk_id} :
                         collection'[id] = collection[id]
                  /\ Cardinality(DOMAIN collection')
                         = IF c.chunk_id \in DOMAIN collection
                           THEN Cardinality(DOMAIN collection)
                           ELSE Cardinality(DOMAIN collection) + 1]_vars

\* the store holds the rewritten content of an updated chunk next to
\* another entry
UpdateReplacesInPlaceWitness ==
    /\ ret.op = "update_chunk"
    /\ ret.chunks[1] \in {Edited(c) : c \in pool}
    /\ collection[ret.chunks[1].chunk_id].document = ret.chunks[1].content
    /\ Cardinality(DOMAIN collection) >= 2

----------------------------------------------------------------------------
(* Properties of the identifiers of one pass                               *)

\* C28: the chunks one chunk_file call returns have pairwise distinct
\* chunk_id values, two nodes of one type that start on the same line
\* included.
IdsUniqueWithinPass ==
    \A i \in DOMAIN runs :
        LET chunks == runs[i].result.chunks
        IN  \A j \in DOMAIN chunks, k \in DOMAIN chunks :
                j # k => chunks[j].chunk_id # chunks[k].chunk_id

----------------------------------------------------------------------------
(* Properties of the batches of add_chunks                                 *)

\* the k-th batch of the list, k from 1
BatchOf(chunks, batch_size, k) ==
    SubSeq(chunks, (k - 1) * batch_size + 1, Min(k * batch_size, Len(chunks)))

\* how many batches the list makes
BatchCount(chunks, batch_size) == (Len(chunks) + batch_size - 1) \div batch_size

\* the batches whose write the collection refuses
FailingBatches(chunks, batch_size) ==
    {k \in 1..BatchCount(chunks, batch_size) :
        HasDuplicates(Ids(BatchOf(chunks, batch_size, k)))}

\* the collection after the first n chunks of the list were written, in
\* list order, each once: an id the collection held before keeps its entry,
\* a new id gets the entry of its first chunk
AfterWriting(coll, chunks, n) ==
    [id \in (DOMAIN coll) \cup {chunks[i].chunk_id : i \in 1..n} |->
        IF id \in DOMAIN coll THEN coll[id]
        ELSE EntryOf(chunks[CHOOSE i \in 1..n :
                                /\ chunks[i].chunk_id = id
                                /\ \A j \in 1..(i - 1) : chunks[j].chunk_id # id])]

\* C29: add_chunks writes the chunks in list order in consecutive batches of
\* at most batch_size, each chunk once; when the write of batch k fails the
\* call raises, batches 1..k-1 stay stored and batch k and the later ones are
\* not written; when no batch fails the call returns len(chunks), and an
\* empty list returns 0 and leaves the store alone.
BatchesAreNotRolledBack ==
    [][ret'.op = "add_chunks"
           => LET chunks     == ret'.chunks
                  batch_size == ret'.value.batch_size
                  failing    == FailingBatches(chunks, batch_size)
              IN  IF chunks = <<>>
                  THEN /\ ~ret'.raised
                       /\ ret'.value.returned = 0
                       /\ collection' = collection
                  ELSE IF failing = {}
                  THEN /\ ~ret'.raised
                       /\ ret'.value.returned = Len(chunks)
                       /\ collection' = AfterWriting(collection, chunks, Len(chunks))
                  ELSE LET k == CHOOSE x \in failing : \A y \in failing : x <= y
                       IN  /\ ret'.raised
                           /\ collection' = AfterWriting(collection, chunks,
                                                         (k - 1) * batch_size)]_vars

\* the second batch of a call failed and the chunks of its first batch,
\* which the store did not hold before, are stored
BatchesAreNotRolledBackWitness ==
    /\ ret.op = "add_chunks"
    /\ ret.raised
    /\ ret.value.batch_size = 2
    /\ Len(ret.chunks) >= 3
    /\ \A i \in 1..2 :
           /\ ret.chunks[i].chunk_id \notin ret.value.stored_before
           /\ ret.chunks[i].chunk_id \in DOMAIN collection

----------------------------------------------------------------------------
(* Properties of the counters of an indexing run                           *)

\* the loop of index_codebase after the first k files of the order
LoopAfter(order, k) ==
    IndexLoop(config, parsers, disk, SubSeq(order, 1, k), 1, <<>>, NoStats)

\* C30: after every file of the loop of index_codebase, files_processed +
\* errors is the number of files handled so far and chunks_created is the
\* number of chunks accumulated for the store; when the run returns,
\* files_processed + errors is the number of files found and chunks_created
\* is the number of chunks passed to add_chunks.
StatsAreConsistent ==
    ret.op = "index_codebase" =>
        /\ \A order \in FileOrders(disk) :
               \A k \in 0..Len(order) :
                   \E loop \in {LoopAfter(order, k)} :
                       /\ loop.stats.files_processed + loop.stats.errors = k
                       /\ loop.stats.chunks_created = Len(loop.all_chunks)
        /\ ~ret.raised
               => /\ ret.value.files_processed + ret.value.errors = Cardinality(Globbed)
                  /\ ret.value.chunks_created = Len(ret.chunks)

\* a run that returned after chunk_file raised on one file and gave chunks
\* for another
StatsAreConsistentWitness ==
    /\ ret.op = "index_codebase"
    /\ ~ret.raised
    /\ ret.value.errors >= 1
    /\ ret.value.files_processed >= 1
    /\ ret.value.chunks_created >= 1
    /\ ret.value.chunks_created = Len(ret.chunks)

====
